---- MODULE Spec2Model ----
(***************************************************************************)
(* Replay-driven voxel world of blockscope-visualizer: the world/chunk     *)
(* state machine of src/src/world.py, driven by the tick events of a       *)
(* replay (src/src/replay_loader.py), with the chunk mesh builder of       *)
(* src/src/meshes/chunk_mesh_builder.py as a pure operator.                *)
(***************************************************************************)
EXTENDS Integers, Sequences, FiniteSets, TLC

(***************************************************************************)
(* Bounds of the model.                                                    *)
(***************************************************************************)
\* ticks of a replay are 0..MaxTick (replay.max_tick)
MaxTick == 1
\* total number of world events recorded in a replay
MaxEvents == 2

(***************************************************************************)
(* Program constants.                                                      *)
(***************************************************************************)
CHUNK_SIZE == 16
RENDER_CUBE == 0
RENDER_CROSS == 1
RENDER_ELEMENTS == 2

AIR == "minecraft:air"
STONE == "minecraft:stone"
WATER == "minecraft:water"
LAVA == "minecraft:lava"
POPPY == "minecraft:poppy"
STAIRS == "minecraft:oak_stairs"
SLAB == "minecraft:oak_slab"
GRASS_BLOCK == "minecraft:grass_block"
FURNACE == "minecraft:furnace"

TINT_NONE == 0
TINT_GRASS == 1
TINT_FOLIAGE == 2

\* FOLIAGE_TINTED_BLOCKS
FOLIAGE_TINTED_BLOCKS ==
    {"minecraft:oak_leaves", "minecraft:jungle_leaves", "minecraft:acacia_leaves",
     "minecraft:dark_oak_leaves"}

\* the default biome of ReplayWorld and of the registry functions
PLAINS == "minecraft:plains"
DESERT == "minecraft:desert"
\* the biomes blocks are registered for
Biomes == {PLAINS, DESERT}

\* the `None` of an unset chunk.vao / chunk.vbo
None == [id |-> -1]

(***************************************************************************)
(* Dictionaries are functions with a finite domain.                        *)
(***************************************************************************)
Put(d, k, v) == [q \in (DOMAIN d) \cup {k} |-> IF q = k THEN v ELSE d[q]]
Del(d, k) == [q \in (DOMAIN d) \ {k} |-> d[q]]
EmptyDict == [q \in {} |-> 0]

(***************************************************************************)
(* The asset directory as block_registry.py reads it.  ModelOf gives, for  *)
(* a block id, what _load_model_json and the classifiers derive from its   *)
(* model file: found, _is_cross_model, `leaves` in the parent chain,       *)
(* _has_tintindex, the face map of _get_face_textures in FACE_NAMES order  *)
(* (up, down, north, south, west, east), and the elements (corners in 1/16 *)
(* of a block, faces in the order of the file as <<face name, texture      *)
(* name, has cullface, uv, rotation>>, uv <<>> where the face has none).   *)
(***************************************************************************)
NoModel == [found |-> FALSE, cross |-> FALSE, leaves |-> FALSE, tint |-> FALSE,
            faces |-> <<>>, elements |-> <<>>]

StairsElements ==
    << [from |-> <<0, 0, 0>>, to |-> <<16, 8, 16>>,
        faces |-> << <<"down", "oak_planks", TRUE, <<0, 0, 16, 16>>, 0>>,
                     <<"up", "oak_planks", FALSE, <<0, 0, 16, 16>>, 0>>,
                     <<"north", "oak_planks", TRUE, <<0, 8, 16, 16>>, 0>>,
                     <<"south", "oak_planks", TRUE, <<0, 8, 16, 16>>, 0>>,
                     <<"west", "oak_planks", TRUE, <<0, 8, 16, 16>>, 0>>,
                     <<"east", "oak_planks", TRUE, <<0, 8, 16, 16>>, 0>> >>],
       [from |-> <<8, 8, 0>>, to |-> <<16, 16, 16>>,
        faces |-> << <<"up", "oak_planks", TRUE, <<8, 0, 16, 16>>, 0>>,
                     <<"north", "oak_planks", TRUE, <<0, 0, 8, 8>>, 0>>,
                     <<"south", "oak_planks", TRUE, <<8, 0, 16, 8>>, 0>>,
                     <<"west", "oak_planks", FALSE, <<0, 0, 16, 8>>, 0>>,
                     <<"east", "oak_planks", TRUE, <<0, 0, 16, 8>>, 0>> >>] >>

\* a slab whose top texture file is not in the texture directory
SlabElements ==
    << [from |-> <<0, 0, 0>>, to |-> <<16, 8, 16>>,
        faces |-> << <<"down", "oak_planks", TRUE, <<>>, 0>>,
                     <<"up", "slab_top", FALSE, <<>>, 0>>,
                     <<"north", "oak_planks", TRUE, <<0, 8, 16, 16>>, 0>>,
                     <<"east", "oak_planks", TRUE, <<0, 8, 16, 16>>, 0>> >>] >>

\* grass_block: two full cubes, the second the tinted overlay
GrassElements ==
    << [from |-> <<0, 0, 0>>, to |-> <<16, 16, 16>>,
        faces |-> << <<"down", "dirt", TRUE, <<>>, 0>>,
                     <<"up", "grass_block_top", TRUE, <<>>, 0>>,
                     <<"north", "grass_block_side", TRUE, <<>>, 0>>,
                     <<"south", "grass_block_side", TRUE, <<>>, 0>>,
                     <<"west", "grass_block_side", TRUE, <<>>, 0>>,
                     <<"east", "grass_block_side", TRUE, <<>>, 0>> >>],
       [from |-> <<0, 0, 0>>, to |-> <<16, 16, 16>>,
        faces |-> << <<"north", "grass_block_side_overlay", TRUE, <<>>, 0>>,
                     <<"south", "grass_block_side_overlay", TRUE, <<>>, 0>>,
                     <<"west", "grass_block_side_overlay", TRUE, <<>>, 0>>,
                     <<"east", "grass_block_side_overlay", TRUE, <<>>, 0>> >>] >>

ModelOf(block_id) ==
    CASE block_id = STONE ->
           [NoModel EXCEPT !.found = TRUE, !.faces = [i \in 1..6 |-> "stone"]]
      [] block_id = WATER ->
           [NoModel EXCEPT !.found = TRUE, !.faces = [i \in 1..6 |-> "water_still"]]
      [] block_id = LAVA ->
           [NoModel EXCEPT !.found = TRUE, !.faces = [i \in 1..6 |-> "lava_still"]]
      [] block_id = POPPY ->
           [NoModel EXCEPT !.found = TRUE, !.cross = TRUE,
                           !.faces = [i \in 1..6 |-> "poppy"]]
      [] block_id = STAIRS ->
           [NoModel EXCEPT !.found = TRUE, !.faces = [i \in 1..6 |-> "oak_planks"],
                           !.elements = StairsElements]
      [] block_id = SLAB ->
           [NoModel EXCEPT !.found = TRUE,
                           !.faces = <<"slab_top", "oak_planks", "oak_planks",
                                       "oak_planks", "oak_planks", "oak_planks">>,
                           !.elements = SlabElements]
      [] block_id = GRASS_BLOCK ->
           [NoModel EXCEPT !.found = TRUE, !.tint = TRUE,
                           !.faces = <<"grass_block_top", "dirt", "grass_block_side",
                                       "grass_block_side", "grass_block_side",
                                       "grass_block_side">>,
                           !.elements = GrassElements]
      [] block_id = FURNACE ->
           [NoModel EXCEPT !.found = TRUE,
                           !.faces = <<"furnace_top", "furnace_top", "furnace_front",
                                       "furnace_side", "furnace_side", "furnace_side">>]
      [] OTHER -> NoModel

\* block_id.replace('minecraft:', '')
Bare(block_id) ==
    CASE block_id = STONE -> "stone"
      [] block_id = WATER -> "water"
      [] block_id = LAVA -> "lava"
      [] block_id = POPPY -> "poppy"
      [] block_id = STAIRS -> "oak_stairs"
      [] block_id = SLAB -> "oak_slab"
      [] block_id = GRASS_BLOCK -> "grass_block"
      [] block_id = FURNACE -> "furnace"
      [] OTHER -> block_id

\* os.path.exists of the texture file in _get_or_load_texture
TextureExists(tex_name) ==
    tex_name \in {"stone", "water_still", "lava_still", "poppy", "oak_planks",
                  "dirt", "grass_block_top", "grass_block_side",
                  "grass_block_side_overlay", "furnace_top", "furnace_front",
                  "furnace_side", "corrupt"}

\* os.path.basename(tex_name), for the names of the model
BaseName(tex_name) ==
    CASE tex_name = "item/stone" -> "stone"
      [] tex_name = "item/nosuch" -> "nosuch"
      [] OTHER -> tex_name

\* the file _get_or_load_texture settles on: the one of the name, else the
\* one of its basename, "" when neither exists
TextureFile(tex_name) ==
    IF TextureExists(tex_name) THEN tex_name
    ELSE IF TextureExists(BaseName(tex_name)) THEN BaseName(tex_name)
    ELSE ""

\* `pg.image.load(png_path).convert_alpha()` and the scaling return without
\* an exception: every file of the directory but one loads
TextureLoads(file) == file # "corrupt"

\* oak_planks: one full cube
PlanksElements ==
    << [from |-> <<0, 0, 0>>, to |-> <<16, 16, 16>>,
        faces |-> << <<"down", "oak_planks", TRUE, <<>>, 0>>,
                     <<"up", "oak_planks", TRUE, <<>>, 0>>,
                     <<"north", "oak_planks", TRUE, <<>>, 0>>,
                     <<"south", "oak_planks", TRUE, <<>>, 0>>,
                     <<"west", "oak_planks", TRUE, <<>>, 0>>,
                     <<"east", "oak_planks", TRUE, <<>>, 0>> >>] >>

\* _load_model_json(model_name) of the model a blockstate variant names
ModelNamed(model_name) ==
    CASE model_name = "minecraft:block/oak_stairs" -> ModelOf(STAIRS)
      [] model_name = "minecraft:block/oak_slab" -> ModelOf(SLAB)
      [] model_name = "minecraft:block/oak_planks" ->
           [NoModel EXCEPT !.found = TRUE, !.faces = [i \in 1..6 |-> "oak_planks"],
                           !.elements = PlanksElements]
      [] OTHER -> NoModel

\* the dict of a properties string: `for prop in s.split(','): if '=' in
\* prop: k, v = prop.split('=', 1); d[k.strip()] = v.strip()`, as the
\* sequence of its <<key, value>> pairs, for the strings of the model
ParseProperties(s) ==
    CASE s = "facing=east" -> << <<"facing", "east">> >>
      [] s = "facing=south" -> << <<"facing", "south">> >>
      [] s = "facing=west" -> << <<"facing", "west">> >>
      [] s = "facing=north" -> << <<"facing", "north">> >>
      [] s = "facing=south,half=top" -> << <<"facing", "south">>, <<"half", "top">> >>
      [] s = "facing=east,half=bottom" -> << <<"facing", "east">>, <<"half", "bottom">> >>
      [] s = "half=top" -> << <<"half", "top">> >>
      [] s = "type=bottom" -> << <<"type", "bottom">> >>
      [] s = "type=top" -> << <<"type", "top">> >>
      [] s = "type=double" -> << <<"type", "double">> >>
      [] OTHER -> <<>>

\* None of a blockstate without a matching variant
NoVariant == [model |-> "", x |-> 0, y |-> 0]

\* _load_blockstate_json: the `variants` of the blockstate file in the order
\* of the file, each as <<variant key, variant data>>; <<>> where the file
\* does not exist
BlockstateOf(block_id) ==
    CASE block_id = STAIRS ->
           << <<"facing=south,half=top",
                [model |-> "minecraft:block/oak_stairs", x |-> 180, y |-> 90]>>,
              <<"facing=east",
                [model |-> "minecraft:block/oak_stairs", x |-> 0, y |-> 0]>>,
              <<"facing=south",
                [model |-> "minecraft:block/oak_stairs", x |-> 0, y |-> 90]>>,
              <<"facing=west",
                [model |-> "minecraft:block/oak_stairs", x |-> 0, y |-> 180]>>,
              <<"facing=north",
                [model |-> "minecraft:block/oak_stairs", x |-> 0, y |-> 270]>> >>
      [] block_id = SLAB ->
           << <<"type=bottom",
                [model |-> "minecraft:block/oak_slab", x |-> 0, y |-> 90]>>,
              <<"type=top",
                [model |-> "minecraft:block/oak_slab_top", x |-> 0, y |-> 0]>>,
              <<"type=double",
                [model |-> "minecraft:block/oak_planks", x |-> 0, y |-> 0]>> >>
      [] OTHER -> <<>>

\* a dict is given as the sequence of its <<key, value>> pairs in the order
\* they were assigned; a later pair of the same key replaces an earlier one
DictHas(d, k) == \E i \in 1..Len(d) : d[i][1] = k

DictGet(d, k) ==
    d[CHOOSE i \in 1..Len(d) : d[i][1] = k /\ \A j \in i + 1..Len(d) : d[j][1] # k][2]

\* `all(properties.get(k) == v for k, v in variant_props.items())`
AllMatch(variant_props, properties) ==
    \A i \in 1..Len(variant_props) :
        /\ DictHas(properties, variant_props[i][1])
        /\ DictGet(properties, variant_props[i][1])
               = DictGet(variant_props, variant_props[i][1])

\* _match_blockstate_variant returning the last variant that matches
RECURSIVE match_blockstate_variant_preferring_later(_, _)
match_blockstate_variant_preferring_later(variants, properties) ==
    IF variants = <<>> THEN NoVariant
    ELSE LET later == match_blockstate_variant_preferring_later(Tail(variants), properties)
         IN  IF later # NoVariant THEN later
             ELSE IF AllMatch(ParseProperties(Head(variants)[1]), properties)
             THEN Head(variants)[2]
             ELSE NoVariant
\* _match_blockstate_variant on the variants of a blockstate and the dict
\* of the given properties
RECURSIVE match_blockstate_variant(_, _)
match_blockstate_variant(variants, properties) ==
    IF variants = <<>> THEN NoVariant
    ELSE IF AllMatch(ParseProperties(Head(variants)[1]), properties)
    THEN Head(variants)[2]
    ELSE match_blockstate_variant(Tail(variants), properties)

\* does the blockstate of block_id declare a variant matching the properties
VariantMatches(block_id, properties) ==
    match_blockstate_variant(BlockstateOf(block_id), ParseProperties(properties))
        # NoVariant

\* A render key is the pair <<block id, properties>>; the plain block id is
\* <<block id, "">> and the variant key f"{block_id}[{properties}]" is
\* <<block id, properties>>.
PlainKey(block_id) == <<block_id, "">>
VariantKey(block_id, properties) == <<block_id, properties>>
\* key.split('[')[0] if '[' in key else key
BaseId(key) == key[1]

(***************************************************************************)
(* BlockRegistry.  A registry value is the record                          *)
(*   desc: key -> descriptor (the block_* tables, one record per key),     *)
(*   tex_name_to_index,                                                    *)
(*   tex_surfaces: the layers of _tex_surfaces, layer i at index i + 1,    *)
(*     each the name of what was drawn into it: the file it was loaded     *)
(*     from, the crop, rotation or composition it was derived by.          *)
(***************************************************************************)
\* BlockRegistry.__init__ with _add_missing_texture
NewRegistry ==
    [desc |-> EmptyDict,
     tex_name_to_index |-> [q \in {"__missing__"} |-> 0],
     tex_surfaces |-> <<"checkerboard">>]

\* BlockRegistry.num_textures
num_textures(reg) == Len(reg.tex_surfaces)

\* `idx = len(self._tex_surfaces); self.tex_name_to_index[key] = idx;
\* self._tex_surfaces.append(surf)`: <<registry afterwards, idx>>
append_texture(reg, key, surf) ==
    <<[reg EXCEPT !.tex_name_to_index = Put(@, key, Len(reg.tex_surfaces)),
                  !.tex_surfaces = Append(@, surf)],
      Len(reg.tex_surfaces)>>

\* _get_or_load_texture that does not record a name it could not load
get_or_load_texture_forgetting_failures(reg, tex_name) ==
    IF tex_name \in DOMAIN reg.tex_name_to_index
    THEN <<reg, reg.tex_name_to_index[tex_name]>>
    ELSE IF TextureFile(tex_name) = "" \/ ~TextureLoads(TextureFile(tex_name))
    THEN <<reg, 0>>
    ELSE append_texture(reg, tex_name, TextureFile(tex_name) \o ".png")

\* BlockRegistry._get_or_load_texture: <<registry afterwards, index>>
get_or_load_texture(reg, tex_name) ==
    IF tex_name \in DOMAIN reg.tex_name_to_index
    THEN <<reg, reg.tex_name_to_index[tex_name]>>
    ELSE IF TextureFile(tex_name) = ""
    THEN <<[reg EXCEPT !.tex_name_to_index = Put(@, tex_name, 0)], 0>>
    ELSE IF ~TextureLoads(TextureFile(tex_name))
    THEN <<[reg EXCEPT !.tex_name_to_index = Put(@, tex_name, 0)], 0>>
    ELSE append_texture(reg, tex_name, TextureFile(tex_name) \o ".png")

\* f"{tex_name}__uv{u1}_{v1}_{u2}_{v2}_r{rotation}"
crop_key(tex_name, u1, v1, u2, v2, rotation) ==
    tex_name \o "__uv" \o ToString(u1) \o "_" \o ToString(v1) \o "_"
        \o ToString(u2) \o "_" \o ToString(v2) \o "_r" \o ToString(rotation)

\* _get_uv_cropped_texture from `full_idx = self._get_or_load_texture(
\* tex_name)` on, given its result full = <<registry afterwards, full_idx>>
crop_loaded(full, key) ==
    IF full[2] = 0 THEN full
    ELSE append_texture(full[1], key,
                        "crop(" \o full[1].tex_surfaces[full[2] + 1] \o "," \o key \o ")")

\* _get_uv_cropped_texture after the normalisation of the uv rectangle
crop_normalised(reg, tex_name, u1, v1, u2, v2, rotation) ==
    IF u1 = 0 /\ v1 = 0 /\ u2 = 16 /\ v2 = 16 /\ rotation = 0
    THEN get_or_load_texture(reg, tex_name)
    ELSE IF crop_key(tex_name, u1, v1, u2, v2, rotation) \in DOMAIN reg.tex_name_to_index
    THEN <<reg, reg.tex_name_to_index[crop_key(tex_name, u1, v1, u2, v2, rotation)]>>
    ELSE crop_loaded(get_or_load_texture(reg, tex_name),
                     crop_key(tex_name, u1, v1, u2, v2, rotation))

\* BlockRegistry._get_uv_cropped_texture: <<registry afterwards, index>>
get_uv_cropped_texture(reg, tex_name, uv, rotation) ==
    crop_normalised(reg, tex_name,
                    IF uv[1] > uv[3] THEN uv[3] ELSE uv[1],
                    IF uv[2] > uv[4] THEN uv[4] ELSE uv[2],
                    IF uv[1] > uv[3] THEN uv[1] ELSE uv[3],
                    IF uv[2] > uv[4] THEN uv[2] ELSE uv[4],
                    rotation)

\* f"__bsrot_{tex_idx}_r{rotation}"
rot_key(tex_idx, rotation) ==
    "__bsrot_" \o ToString(tex_idx) \o "_r" \o ToString(rotation)

\* BlockRegistry._get_rotated_texture: <<registry afterwards, index>>
get_rotated_texture(reg, tex_idx, rotation) ==
    IF rotation = 0 \/ tex_idx = 0 THEN <<reg, tex_idx>>
    ELSE IF rot_key(tex_idx, rotation) \in DOMAIN reg.tex_name_to_index
    THEN <<reg, reg.tex_name_to_index[rot_key(tex_idx, rotation)]>>
    ELSE append_texture(reg, rot_key(tex_idx, rotation),
                        "rotate(" \o reg.tex_surfaces[tex_idx + 1] \o ","
                            \o ToString(rotation) \o ")")

\* the texture indices of a sequence of texture names, loaded in order:
\* <<registry afterwards, sequence of indices>>
RECURSIVE LoadAll(_, _)
LoadAll(reg, names) ==
    IF names = <<>> THEN <<reg, <<>>>>
    ELSE CHOOSE out \in UNION {{<<r2[1], <<r1[2]>> \o r2[2]>> :
                                    r2 \in {LoadAll(r1[1], Tail(names))}} :
                                   r1 \in {get_or_load_texture(reg, Head(names))}} : TRUE

\* the texture of one face in _extract_elements: the cropped texture `if
\* (uv and uv != [0, 0, 16, 16]) or uv_rotation`, else the whole one
face_texture(reg, fc) ==
    IF (fc[4] # <<>> /\ fc[4] # <<0, 0, 16, 16>>) \/ fc[5] # 0
    THEN get_uv_cropped_texture(reg, fc[2],
                                IF fc[4] = <<>> THEN <<0, 0, 16, 16>> ELSE fc[4], fc[5])
    ELSE get_or_load_texture(reg, fc[2])

\* `faces[face_name] = (tex_idx, has_cullface)`, given the loaded texture
\* ld = <<registry afterwards, tex_idx>> and the faces that follow
RECURSIVE load_faces(_, _)
with_face(ld, fc, rest) ==
    <<rest[1], << <<fc[1], ld[2], fc[3]>> >> \o rest[2]>>

\* the faces of one element with their texture indices, loaded in order:
\* <<registry afterwards, faces as <<face name, tex_idx, has cullface>> >>
load_faces(reg, faces) ==
    IF faces = <<>> THEN <<reg, <<>>>>
    ELSE CHOOSE out \in {with_face(ld, Head(faces), load_faces(ld[1], Tail(faces))) :
                             ld \in {face_texture(reg, Head(faces))}} : TRUE

\* the elements of a model with their faces loaded, in order
RECURSIVE load_elements(_, _)
with_element(lf, e, rest) ==
    <<rest[1], <<[from |-> e.from, to |-> e.to, faces |-> lf[2]]>> \o rest[2]>>

load_elements(reg, elements) ==
    IF elements = <<>> THEN <<reg, <<>>>>
    ELSE CHOOSE out \in {with_element(lf, Head(elements),
                                       load_elements(lf[1], Tail(elements))) :
                             lf \in {load_faces(reg, Head(elements).faces)}} : TRUE

\* BlockRegistry._extract_elements: <<registry afterwards, elements>>; <<>>
\* stands for the None of a model whose elements are all full cubes
extract_elements(reg, elements) ==
    IF \A i \in 1..Len(elements) :
           elements[i].from = <<0, 0, 0>> /\ elements[i].to = <<16, 16, 16>>
    THEN <<reg, <<>>>>
    ELSE load_elements(reg, elements)

\* BlockRegistry.get_tint_color, as the name of the colour: white, or the
\* sample of a colormap at the coordinates of the biome
get_tint_color(reg, block_id, biome) ==
    IF PlainKey(block_id) \notin DOMAIN reg.desc THEN "white"
    ELSE IF reg.desc[PlainKey(block_id)].tint_type = TINT_FOLIAGE
    THEN "foliage.png@" \o biome
    ELSE IF reg.desc[PlainKey(block_id)].tint_type = TINT_GRASS
    THEN "grass.png@" \o biome
    ELSE "white"

\* f'__grass_block_side_baked_{biome}'
baked_key(biome) == "__grass_block_side_baked_" \o biome

\* the baked layer stored as a new layer whether or not the key has an index
store_baked_appending(reg, key, baked) ==
    append_texture(reg, key, baked)
\* _bake_grass_block_sides from `baked_key = ...` on: the layer is replaced
\* when the key has an index, appended otherwise; <<registry, baked_idx>>
store_baked(reg, key, baked) ==
    IF key \in DOMAIN reg.tex_name_to_index
    THEN <<[reg EXCEPT !.tex_surfaces[reg.tex_name_to_index[key] + 1] = baked],
           reg.tex_name_to_index[key]>>
    ELSE append_texture(reg, key, baked)

\* `self.block_face_textures[block_id] = (top, bottom, baked_idx, ...)`
with_baked_sides(sb, key) ==
    [sb[1] EXCEPT !.desc[key].face_textures =
        <<@[1], @[2], sb[2], sb[2], sb[2], sb[2]>>]

\* _bake_grass_block_sides from `base_surf = self._tex_surfaces[base_idx]`
\* on, given base = <<registry afterwards, base_idx>>
bake_onto(base, block_id, biome) ==
    with_baked_sides(
        store_baked(base[1], baked_key(biome),
                    "baked(" \o base[1].tex_surfaces[base[2] + 1] \o ","
                        \o get_tint_color(base[1], block_id, biome) \o ")"),
        PlainKey(block_id))

\* BlockRegistry._bake_grass_block_sides (the overlay file exists)
bake_grass_block_sides(reg, block_id, biome) ==
    IF ~TextureExists("grass_block_side_overlay") THEN reg
    ELSE CHOOSE out \in {bake_onto(base, block_id, biome) :
                             base \in {get_or_load_texture(reg, "grass_block_side")}} :
             TRUE

\* the descriptor register_block stores for a block without a model file
flat_descriptor(tex_idx) ==
    [face_textures |-> [i \in 1..6 |-> tex_idx],
     render_type |-> RENDER_CUBE,
     tint_type |-> TINT_NONE,
     tint_faces |-> [i \in 1..6 |-> FALSE],
     is_full |-> TRUE,
     elements |-> <<>>]

\* the descriptor register_block stores for a block with the model m whose
\* elements are elem_data and whose face textures are face_textures
model_descriptor(block_id, m, elem_data, face_textures) ==
    [face_textures |-> face_textures,
     render_type |-> IF elem_data # <<>> THEN RENDER_ELEMENTS
                     ELSE IF m.cross THEN RENDER_CROSS ELSE RENDER_CUBE,
     tint_type |-> IF m.tint
                   THEN (IF block_id \in FOLIAGE_TINTED_BLOCKS
                         THEN TINT_FOLIAGE ELSE TINT_GRASS)
                   ELSE TINT_NONE,
     tint_faces |-> IF block_id = GRASS_BLOCK
                    THEN <<TRUE, FALSE, FALSE, FALSE, FALSE, FALSE>>
                    ELSE [i \in 1..6 |-> m.tint],
     is_full |-> IF m.leaves THEN FALSE
                 ELSE IF block_id = WATER THEN FALSE
                 ELSE ~m.cross /\ elem_data = <<>>,
     elements |-> elem_data]

\* register_block from `face_map = _get_face_textures(model)` on, given
\* the elements ex = <<registry afterwards, elem_data>> and the loaded face
\* textures ld = <<registry afterwards, indices>>
with_descriptor(ex, ld, key, m) ==
    [ld[1] EXCEPT !.desc = Put(@, key,
        model_descriptor(BaseId(key), m, ex[2],
                         IF m.faces = <<>> THEN [i \in 1..6 |-> ld[2]] ELSE ld[2]))]

\* register_block of a block with the model m, after _extract_elements
register_model(ex, key, m) ==
    CHOOSE out \in {with_descriptor(ex, ld, key, m) :
                       ld \in {IF m.faces = <<>>
                               THEN get_or_load_texture(ex[1], Bare(BaseId(key)))
                               ELSE LoadAll(ex[1], m.faces)}} : TRUE

\* `if block_id == 'minecraft:grass_block': self._bake_grass_block_sides(...)`
baked_if_grass(reg, key, biome) ==
    IF key = PlainKey(GRASS_BLOCK) /\ ModelOf(GRASS_BLOCK).faces # <<>>
    THEN bake_grass_block_sides(reg, GRASS_BLOCK, biome)
    ELSE reg

\* `self.block_face_textures[block_id] = (tex_idx,) * 6` and the other
\* tables of a block without a model, given fl = <<registry, tex_idx>>
register_flat(fl, key) ==
    [fl[1] EXCEPT !.desc = Put(@, key, flat_descriptor(fl[2]))]

\* the model file register_block finds for a key: the file is looked up
\* under the whole key string
ModelOfKey(key) ==
    IF key = PlainKey(BaseId(key)) THEN ModelOf(BaseId(key)) ELSE NoModel

\* register_block without the return for a block id that is registered
register_block_again(reg, key, biome) ==
    IF ~ModelOfKey(key).found
    THEN register_flat(
             get_or_load_texture(reg, IF key = PlainKey(BaseId(key))
                                      THEN Bare(BaseId(key)) ELSE "?"),
             key)
    ELSE CHOOSE out \in
             {baked_if_grass(registered, key, biome) :
                 registered \in
                     {register_model(ex, key, ModelOfKey(key)) :
                         ex \in {IF ModelOfKey(key).cross THEN <<reg, <<>>>>
                                 ELSE extract_elements(reg, ModelOfKey(key).elements)}}} :
             TRUE

\* BlockRegistry.register_block
register_block(reg, key, biome) ==
    IF key \in DOMAIN reg.desc THEN reg
    ELSE IF ~ModelOfKey(key).found
    THEN register_flat(
             get_or_load_texture(reg, IF key = PlainKey(BaseId(key))
                                      THEN Bare(BaseId(key)) ELSE "?"),
             key)
    ELSE CHOOSE out \in
             {baked_if_grass(registered, key, biome) :
                 registered \in
                     {register_model(ex, key, ModelOfKey(key)) :
                         ex \in {IF ModelOfKey(key).cross THEN <<reg, <<>>>>
                                 ELSE extract_elements(reg, ModelOfKey(key).elements)}}} :
             TRUE

\* _Y_FACE_ROT[rot_y].get(face_name, face_name)
Y_FACE_ROT(rot_y, face_name) ==
    CASE rot_y = 90 /\ face_name = "north" -> "east"
      [] rot_y = 90 /\ face_name = "east" -> "south"
      [] rot_y = 90 /\ face_name = "south" -> "west"
      [] rot_y = 90 /\ face_name = "west" -> "north"
      [] rot_y = 180 /\ face_name = "north" -> "south"
      [] rot_y = 180 /\ face_name = "south" -> "north"
      [] rot_y = 180 /\ face_name = "east" -> "west"
      [] rot_y = 180 /\ face_name = "west" -> "east"
      [] rot_y = 270 /\ face_name = "north" -> "west"
      [] rot_y = 270 /\ face_name = "west" -> "south"
      [] rot_y = 270 /\ face_name = "south" -> "east"
      [] rot_y = 270 /\ face_name = "east" -> "north"
      [] OTHER -> face_name

\* _X_FACE_ROT[180].get(face_name, face_name)
X_FACE_ROT(face_name) ==
    CASE face_name = "up" -> "down"
      [] face_name = "down" -> "up"
      [] face_name = "north" -> "south"
      [] face_name = "south" -> "north"
      [] OTHER -> face_name

\* the X rotation of one element, `if rot_x == 180`
rotate_x(e, rot_x) ==
    IF rot_x = 180
    THEN [from |-> <<e.from[1], 16 - e.to[2], 16 - e.to[3]>>,
          to |-> <<e.to[1], 16 - e.from[2], 16 - e.from[3]>>,
          faces |-> [i \in 1..Len(e.faces) |->
                        <<X_FACE_ROT(e.faces[i][1]), e.faces[i][2], e.faces[i][3]>>]]
    ELSE e

\* the Y rotation of one element relabelling the faces by the table of
\* rotation 90 whatever the angle
rotate_y_always_by_90(e, rot_y) ==
    IF rot_y \in {90, 180, 270}
    THEN [from |-> IF rot_y = 90 THEN <<16 - e.to[3], e.from[2], e.from[1]>>
                   ELSE IF rot_y = 180
                   THEN <<16 - e.to[1], e.from[2], 16 - e.to[3]>>
                   ELSE <<e.from[3], e.from[2], 16 - e.to[1]>>,
          to |-> IF rot_y = 90 THEN <<16 - e.from[3], e.to[2], e.to[1]>>
                 ELSE IF rot_y = 180
                 THEN <<16 - e.from[1], e.to[2], 16 - e.from[3]>>
                 ELSE <<e.to[3], e.to[2], 16 - e.from[1]>>,
          faces |-> [i \in 1..Len(e.faces) |->
                        <<Y_FACE_ROT(90, e.faces[i][1]), e.faces[i][2],
                          e.faces[i][3]>>]]
    ELSE e

\* the Y rotation of one element, `if rot_y in (90, 180, 270)`
rotate_y(e, rot_y) ==
    IF rot_y \in {90, 180, 270}
    THEN [from |-> IF rot_y = 90 THEN <<16 - e.to[3], e.from[2], e.from[1]>>
                   ELSE IF rot_y = 180
                   THEN <<16 - e.to[1], e.from[2], 16 - e.to[3]>>
                   ELSE <<e.from[3], e.from[2], 16 - e.to[1]>>,
          to |-> IF rot_y = 90 THEN <<16 - e.from[3], e.to[2], e.to[1]>>
                 ELSE IF rot_y = 180
                 THEN <<16 - e.from[1], e.to[2], 16 - e.from[3]>>
                 ELSE <<e.to[3], e.to[2], 16 - e.from[1]>>,
          faces |-> [i \in 1..Len(e.faces) |->
                        <<Y_FACE_ROT(rot_y, e.faces[i][1]), e.faces[i][2],
                          e.faces[i][3]>>]]
    ELSE e

\* _rotate_elements with the Y rotation applied before the X rotation
rotate_elements_y_first(elements, rot_x, rot_y) ==
    [i \in 1..Len(elements) |-> rotate_x(rotate_y(elements[i], rot_y), rot_x)]
\* _rotate_elements: X rotation first, then Y
rotate_elements(elements, rot_x, rot_y) ==
    [i \in 1..Len(elements) |-> rotate_y(rotate_x(elements[i], rot_x), rot_y)]

\* `if fn in ('up', 'down'): tidx = self._get_rotated_texture(tidx, rot_y)`
\* for one face: <<registry afterwards, tidx>>
rotated_face_texture(reg, fc, rot_y) ==
    IF fc[1] \in {"up", "down"} THEN get_rotated_texture(reg, fc[2], rot_y)
    ELSE <<reg, fc[2]>>

\* the faces of one element with the up and down textures rotated
RECURSIVE rotate_face_textures(_, _, _)
with_rotated_face(rt, fc, rest) ==
    <<rest[1], << <<fc[1], rt[2], fc[3]>> >> \o rest[2]>>

rotate_face_textures(reg, faces, rot_y) ==
    IF faces = <<>> THEN <<reg, <<>>>>
    ELSE CHOOSE out \in {with_rotated_face(rt, Head(faces),
                                            rotate_face_textures(rt[1], Tail(faces),
                                                                 rot_y)) :
                             rt \in {rotated_face_texture(reg, Head(faces), rot_y)}} : TRUE

\* the loop `for f, t, faces in elements` rotating the up and down textures
RECURSIVE rotate_textures(_, _, _)
with_rotated_element(rf, e, rest) ==
    <<rest[1], <<[from |-> e.from, to |-> e.to, faces |-> rf[2]]>> \o rest[2]>>

rotate_textures(reg, elements, rot_y) ==
    IF elements = <<>> THEN <<reg, <<>>>>
    ELSE CHOOSE out \in {with_rotated_element(rf, Head(elements),
                                               rotate_textures(rf[1], Tail(elements),
                                                               rot_y)) :
                             rf \in {rotate_face_textures(reg, Head(elements).faces,
                                                          rot_y)}} : TRUE

\* `if rot_y in (90, 180, 270)`: the rotated elements with the up and down
\* textures rotated too: <<registry afterwards, elements>>
textures_rotated(reg, elements, rot_y) ==
    IF rot_y \in {90, 180, 270} THEN rotate_textures(reg, elements, rot_y)
    ELSE <<reg, elements>>

\* `Register variant: copy base block metadata, override elements`, given
\* el = <<registry afterwards, elements>>: <<registry afterwards, key>>
store_variant(el, block_id, variant_key) ==
    <<[el[1] EXCEPT !.desc = Put(@, variant_key,
          [el[1].desc[PlainKey(block_id)] EXCEPT
              !.render_type = RENDER_ELEMENTS,
              !.is_full = FALSE,
              !.elements = el[2]])],
      variant_key>>

\* register_block_variant storing a variant for a model without elements too
register_extracted_without_geometry_check(ex, block_id, variant_key, variant_info) ==
    CHOOSE out \in {store_variant(el, block_id, variant_key) :
                        el \in {textures_rotated(
                                    ex[1],
                                    rotate_elements(ex[2], variant_info.x,
                                                    variant_info.y),
                                    variant_info.y)}} : TRUE

\* register_block_variant from `elements = self._extract_elements(model)`
\* on, given its result ex = <<registry afterwards, elements>>
register_extracted(ex, block_id, variant_key, variant_info) ==
    IF ex[2] = <<>> THEN <<ex[1], PlainKey(block_id)>>
    ELSE CHOOSE out \in {store_variant(el, block_id, variant_key) :
                             el \in {textures_rotated(
                                         ex[1],
                                         rotate_elements(ex[2], variant_info.x,
                                                         variant_info.y),
                                         variant_info.y)}} : TRUE

\* register_block_variant from `model_name = variant_info.get('model', '')` on
register_matched(reg, block_id, variant_key, variant_info) ==
    IF variant_info = NoVariant THEN <<reg, PlainKey(block_id)>>
    ELSE IF ~ModelNamed(variant_info.model).found THEN <<reg, PlainKey(block_id)>>
    ELSE CHOOSE out \in {register_extracted(ex, block_id, variant_key, variant_info) :
                             ex \in {extract_elements(
                                         reg, ModelNamed(variant_info.model).elements)}} :
             TRUE

\* BlockRegistry.register_block_variant after `if block_id not in
\* self.block_face_textures: self.register_block(block_id, biome)`:
\* <<registry afterwards, returned key>>
register_variant_of_registered(reg1, block_id, properties) ==
    IF reg1.desc[PlainKey(block_id)].render_type # RENDER_ELEMENTS
    THEN <<reg1, PlainKey(block_id)>>
    ELSE IF VariantKey(block_id, properties) \in DOMAIN reg1.desc
    THEN <<reg1, VariantKey(block_id, properties)>>
    ELSE IF BlockstateOf(block_id) = <<>>
    THEN <<reg1, PlainKey(block_id)>>
    ELSE register_matched(reg1, block_id, VariantKey(block_id, properties),
                          match_blockstate_variant(BlockstateOf(block_id),
                                                   ParseProperties(properties)))

\* BlockRegistry.register_block_variant: <<registry afterwards, returned key>>
register_block_variant(reg, block_id, properties, biome) ==
    CHOOSE out \in {register_variant_of_registered(reg1, block_id, properties) :
                       reg1 \in {IF PlainKey(block_id) \notin DOMAIN reg.desc
                                 THEN register_block(reg, PlainKey(block_id), biome)
                                 ELSE reg}} : TRUE

(***************************************************************************)
(* Chunk mesh builder (meshes/chunk_mesh_builder.py).  A buffer is the     *)
(* sequence of the quads written to it; a quad stands for its 6 vertices   *)
(* of 9 floats: the 4 corner positions (block position plus corner offset, *)
(* offsets in 1/2000 of a block), the texture index, the packed code of    *)
(* each corner, the corner order of the two triangles, the tint (the       *)
(* block's tint colour or white) and alpha (in tenths).  Blocks are        *)
(* visited in lexicographic order of position.                             *)
(***************************************************************************)
FLOATS_PER_VERTEX == 9

UNSHADED_BLOCKS == {WATER, LAVA}

\* _FACE_NORMALS[face_id], face_id in 0..5
FACE_NORMALS == << <<0, 1, 0>>, <<0, -1, 0>>, <<1, 0, 0>>,
                   <<-1, 0, 0>>, <<0, 0, -1>>, <<0, 0, 1>> >>

\* _FACE_VERTS[face_id][corner]
FACE_VERTS ==
    << << <<0,1,0>>, <<1,1,0>>, <<1,1,1>>, <<0,1,1>> >>,
       << <<0,0,0>>, <<1,0,0>>, <<1,0,1>>, <<0,0,1>> >>,
       << <<1,0,0>>, <<1,1,0>>, <<1,1,1>>, <<1,0,1>> >>,
       << <<0,0,0>>, <<0,1,0>>, <<0,1,1>>, <<0,0,1>> >>,
       << <<0,0,0>>, <<0,1,0>>, <<1,1,0>>, <<1,0,0>> >>,
       << <<0,0,1>>, <<0,1,1>>, <<1,1,1>>, <<1,0,1>> >> >>

AO_Y == << <<0,-1>>, <<-1,-1>>, <<-1,0>>, <<-1,1>>, <<0,1>>, <<1,1>>, <<1,0>>, <<1,-1>> >>
AO_X == << <<0,-1>>, <<-1,-1>>, <<-1,0>>, <<-1,1>>, <<0,1>>, <<1,1>>, <<1,0>>, <<1,-1>> >>
AO_Z == << <<-1,0>>, <<-1,-1>>, <<0,-1>>, <<1,-1>>, <<1,0>>, <<1,1>>, <<0,1>>, <<-1,1>> >>

\* _WINDING[face_id][flip_id]
WINDING ==
    << << <<0,3,2,0,2,1>>, <<1,0,3,1,3,2>> >>,
       << <<0,2,3,0,1,2>>, <<1,3,0,1,2,3>> >>,
       << <<0,1,2,0,2,3>>, <<3,0,1,3,1,2>> >>,
       << <<0,2,1,0,3,2>>, <<3,1,0,3,2,1>> >>,
       << <<0,1,2,0,2,3>>, <<3,0,1,3,1,2>> >>,
       << <<0,2,1,0,3,2>>, <<3,1,0,3,2,1>> >> >>

\* _CROSS_PLANES with _d = 0.854, _e = 0.146
CROSS_PLANES ==
    << << <<292,0,292>>, <<292,2000,292>>, <<1708,2000,1708>>, <<1708,0,1708>> >>,
       << <<1708,0,1708>>, <<1708,2000,1708>>, <<292,2000,292>>, <<292,0,292>> >>,
       << <<1708,0,292>>, <<1708,2000,292>>, <<292,2000,1708>>, <<292,0,1708>> >>,
       << <<292,0,1708>>, <<292,2000,1708>>, <<1708,2000,292>>, <<1708,0,292>> >> >>

\* _CROSS_PACKED = 0 * 16 + 3 * 2 + 0
CROSS_PACKED == 6

\* _ELEM_FACE_INFO[face_name][0]; -1 for a name outside the table
ElemFaceId(face_name) ==
    CASE face_name = "up" -> 0
      [] face_name = "down" -> 1
      [] face_name = "east" -> 2
      [] face_name = "west" -> 3
      [] face_name = "north" -> 4
      [] face_name = "south" -> 5
      [] OTHER -> -1

\* _FACE_NAME_TO_TINT_IDX.get(face_name, 0)
FaceNameToTintIdx(face_name) ==
    CASE face_name = "up" -> 0
      [] face_name = "down" -> 1
      [] face_name = "north" -> 2
      [] face_name = "south" -> 3
      [] face_name = "west" -> 4
      [] face_name = "east" -> 5
      [] OTHER -> 0

B2I(b) == IF b THEN 1 ELSE 0

\* _compute_ao_corner counting the samples that are not in solid
compute_ao_corner_counting_empty(solid_occupied, b, face_id, corner) ==
    LET i == corner * 2
        i0 == (i % 8) + 1
        i1 == ((i + 1) % 8) + 1
        i2 == ((i + 2) % 8) + 1
        n == FACE_NORMALS[face_id + 1]
        Y(k) == <<b[1] + AO_Y[k][1], b[2] + n[2], b[3] + AO_Y[k][2]>>
        X(k) == <<b[1] + n[1], b[2] + AO_X[k][1], b[3] + AO_X[k][2]>>
        Z(k) == <<b[1] + AO_Z[k][1], b[2] + AO_Z[k][2], b[3] + n[3]>>
        S(k) == IF face_id <= 1 THEN Y(k) ELSE IF face_id <= 3 THEN X(k) ELSE Z(k)
    IN  B2I(S(i0) \notin solid_occupied) + B2I(S(i1) \notin solid_occupied)
          + B2I(S(i2) \notin solid_occupied)

\* _compute_ao_corner
compute_ao_corner(solid_occupied, b, face_id, corner) ==
    LET i == corner * 2
        i0 == (i % 8) + 1
        i1 == ((i + 1) % 8) + 1
        i2 == ((i + 2) % 8) + 1
        n == FACE_NORMALS[face_id + 1]
        Y(k) == <<b[1] + AO_Y[k][1], b[2] + n[2], b[3] + AO_Y[k][2]>>
        X(k) == <<b[1] + n[1], b[2] + AO_X[k][1], b[3] + AO_X[k][2]>>
        Z(k) == <<b[1] + AO_Z[k][1], b[2] + AO_Z[k][2], b[3] + n[3]>>
        S(k) == IF face_id <= 1 THEN Y(k) ELSE IF face_id <= 3 THEN X(k) ELSE Z(k)
    IN  B2I(S(i0) \in solid_occupied) + B2I(S(i1) \in solid_occupied)
          + B2I(S(i2) \in solid_occupied)

\* _element_face_verts, f and t in 1/16 of a block
element_face_verts(f, t, face_name) ==
    LET x0 == f[1] * 125  y0 == f[2] * 125  z0 == f[3] * 125
        x1 == t[1] * 125  y1 == t[2] * 125  z1 == t[3] * 125
    IN  CASE face_name = "up"    -> << <<x0,y1,z0>>, <<x1,y1,z0>>, <<x1,y1,z1>>, <<x0,y1,z1>> >>
          [] face_name = "down"  -> << <<x0,y0,z0>>, <<x1,y0,z0>>, <<x1,y0,z1>>, <<x0,y0,z1>> >>
          [] face_name = "east"  -> << <<x1,y0,z0>>, <<x1,y1,z0>>, <<x1,y1,z1>>, <<x1,y0,z1>> >>
          [] face_name = "west"  -> << <<x0,y0,z0>>, <<x0,y1,z0>>, <<x0,y1,z1>>, <<x0,y0,z1>> >>
          [] face_name = "north" -> << <<x0,y0,z0>>, <<x0,y1,z0>>, <<x1,y1,z0>>, <<x1,y0,z0>> >>
          [] OTHER               -> << <<x0,y0,z1>>, <<x0,y1,z1>>, <<x1,y1,z1>>, <<x1,y0,z1>> >>

\* positions as a sequence in lexicographic order
PosLess(p, q) ==
    \/ p[1] < q[1]
    \/ p[1] = q[1] /\ p[2] < q[2]
    \/ p[1] = q[1] /\ p[2] = q[2] /\ p[3] < q[3]

RECURSIVE SortedPositions(_)
SortedPositions(ps) ==
    IF ps = {} THEN <<>>
    ELSE LET m == CHOOSE p \in ps : \A q \in ps \ {p} : PosLess(p, q)
         IN  <<m>> \o SortedPositions(ps \ {m})

\* the concatenation of f(s[1]), f(s[2]), ...
RECURSIVE FlatMap(_, _)
FlatMap(f(_), s) == IF s = <<>> THEN <<>> ELSE f(Head(s)) \o FlatMap(f, Tail(s))

CacheGet(cache_, bid, field, default) ==
    IF bid \in DOMAIN cache_ THEN cache_[bid][field] ELSE default

\* the quad of one face of a transparent Cube block (cube_blocks_trans)
cube_face_trans(b, bid, face_id, solid_occupied, liquid_occupied, cache_) ==
    LET n == FACE_NORMALS[face_id + 1]
        nb == <<b[1] + n[1], b[2] + n[2], b[3] + n[3]>>
        unshaded == BaseId(bid) \in UNSHADED_BLOCKS
        face_textures == CacheGet(cache_, bid, "face_textures", [i \in 1..6 |-> 0])
        tint_faces_mask == CacheGet(cache_, bid, "tint_faces", [i \in 1..6 |-> FALSE])
        alpha == CacheGet(cache_, bid, "alpha", 10)
        packed_fid == IF unshaded THEN face_id + 6 ELSE face_id
    IN  IF nb \in solid_occupied THEN <<>>
        ELSE IF unshaded /\ nb \in liquid_occupied THEN <<>>
        ELSE << [pos |-> b, face_id |-> face_id,
                 verts |-> [c \in 1..4 |-> [k \in 1..3 |-> FACE_VERTS[face_id + 1][c][k] * 2000]],
                 tex_id |-> face_textures[face_id + 1],
                 packed |-> [c \in 1..4 |-> packed_fid * 16 + 3 * 2 + 0],
                 order |-> WINDING[face_id + 1][1],
                 tint |-> IF tint_faces_mask[face_id + 1] THEN "block" ELSE "white",
                 alpha |-> alpha] >>

\* the quad of one Cube face with the code of a corner without neighbours
\* and the first winding, whatever the solid set holds
cube_face_flat_shaded(b, bid, face_id, solid_occupied, liquid_occupied, cache_) ==
    cube_face_trans(b, bid, face_id, solid_occupied, liquid_occupied, cache_)

\* the quad of one Cube face, or nothing when the face is culled
\* (the body of `for face_id in range(6)` for cube_blocks)
cube_face(b, bid, face_id, solid_occupied, liquid_occupied, cache_) ==
    LET n == FACE_NORMALS[face_id + 1]
        nb == <<b[1] + n[1], b[2] + n[2], b[3] + n[3]>>
        unshaded == BaseId(bid) \in UNSHADED_BLOCKS
        face_textures == CacheGet(cache_, bid, "face_textures", [i \in 1..6 |-> 0])
        tint_faces_mask == CacheGet(cache_, bid, "tint_faces", [i \in 1..6 |-> FALSE])
        alpha == CacheGet(cache_, bid, "alpha", 10)
        ao == [c \in 1..4 |-> compute_ao_corner(solid_occupied, b, face_id, c - 1)]
        flip_id == IF ao[2] + ao[4] > ao[1] + ao[3] THEN 1 ELSE 0
        verts == [c \in 1..4 |-> [k \in 1..3 |-> FACE_VERTS[face_id + 1][c][k] * 2000]]
    IN  IF nb \in solid_occupied THEN <<>>
        ELSE IF unshaded /\ nb \in liquid_occupied THEN <<>>
        ELSE IF unshaded
        THEN << [pos |-> b, face_id |-> face_id, verts |-> verts,
                 tex_id |-> face_textures[face_id + 1],
                 packed |-> [c \in 1..4 |-> (face_id + 6) * 16 + 3 * 2 + 0],
                 order |-> WINDING[face_id + 1][1],
                 tint |-> IF tint_faces_mask[face_id + 1] THEN "block" ELSE "white",
                 alpha |-> alpha] >>
        ELSE << [pos |-> b, face_id |-> face_id, verts |-> verts,
                 tex_id |-> face_textures[face_id + 1],
                 packed |-> [c \in 1..4 |-> face_id * 16 + (3 - ao[c]) * 2 + flip_id],
                 order |-> WINDING[face_id + 1][flip_id + 1],
                 tint |-> IF tint_faces_mask[face_id + 1] THEN "block" ELSE "white",
                 alpha |-> alpha] >>

\* the 4 planes of one Cross block
cross_quads(b, bid, cache_) ==
    [pl \in 1..4 |->
        [pos |-> b, face_id |-> 0, verts |-> CROSS_PLANES[pl],
         tex_id |-> CacheGet(cache_, bid, "face_textures", [i \in 1..6 |-> 0])[1],
         packed |-> [c \in 1..4 |-> CROSS_PACKED],
         order |-> <<0, 1, 2, 0, 2, 3>>,
         tint |-> "block",
         alpha |-> CacheGet(cache_, bid, "alpha", 10)]]

\* the quads of one Elements block
element_quads(b, bid, solid_occupied, cache_) ==
    LET elements == CacheGet(cache_, bid, "elements", <<>>)
        tint_faces_mask == CacheGet(cache_, bid, "tint_faces", [i \in 1..6 |-> FALSE])
        alpha == CacheGet(cache_, bid, "alpha", 10)
        OneFace(e, fc) ==
            LET face_id == ElemFaceId(fc[1])
                n == FACE_NORMALS[face_id + 1]
            IN  IF face_id = -1 THEN <<>>
                ELSE IF fc[3] /\ <<b[1] + n[1], b[2] + n[2], b[3] + n[3]>> \in solid_occupied
                THEN <<>>
                ELSE << [pos |-> b, face_id |-> face_id,
                         verts |-> element_face_verts(e.from, e.to, fc[1]),
                         tex_id |-> fc[2],
                         packed |-> [c \in 1..4 |-> face_id * 16 + 3 * 2 + 0],
                         order |-> WINDING[face_id + 1][1],
                         tint |-> IF tint_faces_mask[FaceNameToTintIdx(fc[1]) + 1]
                                  THEN "block" ELSE "white",
                         alpha |-> alpha] >>
        OneElement(e) == LET F(fc) == OneFace(e, fc) IN FlatMap(F, e.faces)
    IN  FlatMap(OneElement, elements)

\* build_chunk_mesh culling Cube faces against the blocks of its own chunk only
build_chunk_mesh_culling_inside_chunk(chunk_blocks, solid_occupied, liquid_occupied, cache_) ==
    LET ps == SortedPositions(DOMAIN chunk_blocks)
        rt(p) == CacheGet(cache_, chunk_blocks[p], "render_type", RENDER_CUBE)
        IsTrans(p) == CacheGet(cache_, chunk_blocks[p], "alpha", 10) < 10
        faces == <<0, 1, 2, 3, 4, 5>>
        inside == DOMAIN chunk_blocks
        Cross(p) == IF rt(p) = RENDER_CROSS
                    THEN cross_quads(p, chunk_blocks[p], cache_) ELSE <<>>
        Elem(p) == IF rt(p) = RENDER_ELEMENTS
                   THEN element_quads(p, chunk_blocks[p], solid_occupied, cache_)
                   ELSE <<>>
        Cube(p) ==
            LET F(face_id) == cube_face(p, chunk_blocks[p], face_id,
                                        solid_occupied \cap inside,
                                        liquid_occupied \cap inside, cache_)
            IN  IF rt(p) \notin {RENDER_CROSS, RENDER_ELEMENTS} /\ ~IsTrans(p)
                THEN FlatMap(F, faces) ELSE <<>>
        CubeTrans(p) ==
            LET F(face_id) == cube_face_trans(p, chunk_blocks[p], face_id,
                                              solid_occupied \cap inside,
                                              liquid_occupied \cap inside, cache_)
            IN  IF rt(p) \notin {RENDER_CROSS, RENDER_ELEMENTS} /\ IsTrans(p)
                THEN FlatMap(F, faces) ELSE <<>>
    IN  [opaque |-> FlatMap(Cross, ps) \o FlatMap(Cube, ps) \o FlatMap(Elem, ps),
         trans |-> FlatMap(CubeTrans, ps)]

\* build_chunk_mesh: [opaque |-> buf[:idx], trans |-> buf_t[:idx_t]]
build_chunk_mesh(chunk_blocks, solid_occupied, liquid_occupied, cache_) ==
    LET ps == SortedPositions(DOMAIN chunk_blocks)
        rt(p) == CacheGet(cache_, chunk_blocks[p], "render_type", RENDER_CUBE)
        IsTrans(p) == CacheGet(cache_, chunk_blocks[p], "alpha", 10) < 10
        faces == <<0, 1, 2, 3, 4, 5>>
        Cross(p) == IF rt(p) = RENDER_CROSS
                    THEN cross_quads(p, chunk_blocks[p], cache_) ELSE <<>>
        Cube(p) ==
            LET F(face_id) == cube_face(p, chunk_blocks[p], face_id,
                                        solid_occupied, liquid_occupied, cache_)
            IN  IF rt(p) \notin {RENDER_CROSS, RENDER_ELEMENTS} /\ ~IsTrans(p)
                THEN FlatMap(F, faces) ELSE <<>>
        CubeTrans(p) ==
            LET F(face_id) == cube_face_trans(p, chunk_blocks[p], face_id,
                                              solid_occupied, liquid_occupied, cache_)
            IN  IF rt(p) \notin {RENDER_CROSS, RENDER_ELEMENTS} /\ IsTrans(p)
                THEN FlatMap(F, faces) ELSE <<>>
        Elem(p) == IF rt(p) = RENDER_ELEMENTS
                   THEN element_quads(p, chunk_blocks[p], solid_occupied, cache_)
                   ELSE <<>>
    IN  [opaque |-> FlatMap(Cross, ps) \o FlatMap(Cube, ps) \o FlatMap(Elem, ps),
         trans |-> FlatMap(CubeTrans, ps)]

(***************************************************************************)
(* ReplayWorld (world.py).  A world value w is the record of the fields    *)
(* of ReplayWorld the operations read and write:                           *)
(*   blocks, solid, liquid, chunks, any_dirty, current_tick,               *)
(*   registry (the BlockRegistry), cache (the per-key render caches),      *)
(*   gpu (live: the buffers and vertex arrays allocated and not released;  *)
(*        bad_release: release() was called on one that was not live;      *)
(*        freed: those released by the operation in progress or, between  *)
(*        operations, by the last one; a newly created object is distinct *)
(*        from them).                                                      *)
(***************************************************************************)
\* _chunk_key: x >> 4 is the floor of x / 16, also for negative x
chunk_key(pos) == <<pos[1] \div 16, pos[2] \div 16, pos[3] \div 16>>

\* Chunk.__init__
NewChunk == [blocks |-> EmptyDict, vao |-> None, vbo |-> None,
             vao_trans |-> None, vbo_trans |-> None, dirty |-> TRUE]

\* `nb = self._chunks.get(k); if nb: nb.dirty = True`
DirtyIfExists(chs, k) ==
    IF k \in DOMAIN chs THEN [chs EXCEPT ![k].dirty = TRUE] ELSE chs

\* _mark_dirty without `self._any_dirty = True`
mark_dirty_leaving_any_dirty(w, pos) ==
    LET ck == chunk_key(pos)
        lx == pos[1] % 16
        ly == pos[2] % 16
        lz == pos[3] % 16
        c0 == DirtyIfExists(w.chunks, ck)
        c1 == IF lx = 0 THEN DirtyIfExists(c0, <<ck[1] - 1, ck[2], ck[3]>>)
              ELSE IF lx = 15 THEN DirtyIfExists(c0, <<ck[1] + 1, ck[2], ck[3]>>)
              ELSE c0
        c2 == IF ly = 0 THEN DirtyIfExists(c1, <<ck[1], ck[2] - 1, ck[3]>>)
              ELSE IF ly = 15 THEN DirtyIfExists(c1, <<ck[1], ck[2] + 1, ck[3]>>)
              ELSE c1
        c3 == IF lz = 0 THEN DirtyIfExists(c2, <<ck[1], ck[2], ck[3] - 1>>)
              ELSE IF lz = 15 THEN DirtyIfExists(c2, <<ck[1], ck[2], ck[3] + 1>>)
              ELSE c2
    IN  [w EXCEPT !.chunks = c3]
\* _mark_dirty without its boundary cases
mark_dirty_own_only(w, pos) ==
    [w EXCEPT !.chunks = DirtyIfExists(w.chunks, chunk_key(pos)), !.any_dirty = TRUE]

\* ReplayWorld._mark_dirty
mark_dirty(w, pos) ==
    LET ck == chunk_key(pos)
        lx == pos[1] % 16
        ly == pos[2] % 16
        lz == pos[3] % 16
        c0 == DirtyIfExists(w.chunks, ck)
        c1 == IF lx = 0 THEN DirtyIfExists(c0, <<ck[1] - 1, ck[2], ck[3]>>)
              ELSE IF lx = 15 THEN DirtyIfExists(c0, <<ck[1] + 1, ck[2], ck[3]>>)
              ELSE c0
        c2 == IF ly = 0 THEN DirtyIfExists(c1, <<ck[1], ck[2] - 1, ck[3]>>)
              ELSE IF ly = 15 THEN DirtyIfExists(c1, <<ck[1], ck[2] + 1, ck[3]>>)
              ELSE c1
        c3 == IF lz = 0 THEN DirtyIfExists(c2, <<ck[1], ck[2], ck[3] - 1>>)
              ELSE IF lz = 15 THEN DirtyIfExists(c2, <<ck[1], ck[2], ck[3] + 1>>)
              ELSE c2
    IN  [w EXCEPT !.chunks = c3, !.any_dirty = TRUE]

\* one `if chunk.X: chunk.X.release(); chunk.X = None` of _release_chunk_gpu,
\* on the gpu bookkeeping: releasing an object that is not live is recorded
ReleaseObj(gpu, obj) ==
    IF obj = None THEN gpu
    ELSE IF obj.id \in gpu.live
         THEN [gpu EXCEPT !.live = @ \ {obj.id}, !.freed = @ \cup {obj.id}]
         ELSE [gpu EXCEPT !.bad_release = TRUE]

\* ReplayWorld._release_chunk_gpu: <<chunk afterwards, gpu afterwards>>
release_chunk_gpu(chunk, gpu) ==
    LET g1 == ReleaseObj(gpu, chunk.vao)
        g2 == ReleaseObj(g1, chunk.vbo)
        g3 == ReleaseObj(g2, chunk.vao_trans)
        g4 == ReleaseObj(g3, chunk.vbo_trans)
    IN  <<[chunk EXCEPT !.vao = None, !.vbo = None,
                        !.vao_trans = None, !.vbo_trans = None], g4>>

\* ReplayWorld._cache_block
cache_block(w, key) ==
    LET known == key \in DOMAIN w.registry.desc
        d == w.registry.desc[key]
        \* alpha in tenths: 0.5 for water, else the default 1.0 of the mesh builder
        rec == [face_textures |-> IF known THEN d.face_textures ELSE [i \in 1..6 |-> 0],
                render_type |-> IF known THEN d.render_type ELSE RENDER_CUBE,
                tint_faces |-> IF known THEN d.tint_faces ELSE [i \in 1..6 |-> FALSE],
                is_full |-> IF known THEN d.is_full ELSE TRUE,
                elements |-> IF known THEN d.elements ELSE <<>>,
                alpha |-> IF BaseId(key) = WATER THEN 5 ELSE 10]
    IN  [w EXCEPT !.cache = Put(@, key, rec)]

\* ReplayWorld._register_block
world_register_block(w, key) ==
    cache_block([w EXCEPT !.registry = register_block(@, key, PLAINS)], key)

\* self._is_full_cache.get(block_id, True)
IsFullCached(w, key) ==
    IF key \in DOMAIN w.cache THEN w.cache[key].is_full ELSE TRUE

\* _set_block after its registration test, without the two discard() branches
place_block_never_discards(w, pos, key) ==
    LET ck == chunk_key(pos)
        chs0 == IF ck \notin DOMAIN w.chunks THEN Put(w.chunks, ck, NewChunk) ELSE w.chunks
        chs1 == [chs0 EXCEPT ![ck].blocks = Put(@, pos, key)]
    IN  mark_dirty([w EXCEPT
            !.blocks = Put(@, pos, key),
            !.solid = IF IsFullCached(w, key) THEN @ \cup {pos} ELSE @,
            !.liquid = IF BaseId(key) \in {WATER, LAVA} THEN @ \cup {pos} ELSE @,
            !.chunks = chs1], pos)

\* _set_block without the two discard() branches
set_block_never_discards(w0, pos, key) ==
    place_block_never_discards(
        IF key \notin DOMAIN w0.cache THEN world_register_block(w0, key) ELSE w0,
        pos, key)

\* ReplayWorld._set_block after `if block_id not in self._face_tex_cache:
\* self._register_block(block_id)`
place_block(w, pos, key) ==
    LET ck == chunk_key(pos)
        chs0 == IF ck \notin DOMAIN w.chunks THEN Put(w.chunks, ck, NewChunk) ELSE w.chunks
        chs1 == [chs0 EXCEPT ![ck].blocks = Put(@, pos, key)]
    IN  mark_dirty([w EXCEPT
            !.blocks = Put(@, pos, key),
            !.solid = IF IsFullCached(w, key) THEN @ \cup {pos} ELSE @ \ {pos},
            !.liquid = IF BaseId(key) \in {WATER, LAVA} THEN @ \cup {pos} ELSE @ \ {pos},
            !.chunks = chs1], pos)

\* ReplayWorld._set_block
set_block(w0, pos, key) ==
    place_block(
        IF key \notin DOMAIN w0.cache THEN world_register_block(w0, key) ELSE w0,
        pos, key)

\* _remove_block that keeps a chunk whose last block is gone
remove_block_keeps_chunk(w, pos) ==
    LET ck == chunk_key(pos)
        w1 == [w EXCEPT !.blocks = Del(@, pos),
                        !.solid = @ \ {pos},
                        !.liquid = @ \ {pos}]
        popped == Del(w.chunks[ck].blocks, pos)
        w2 == IF ck \notin DOMAIN w.chunks THEN w1
              ELSE [w1 EXCEPT !.chunks[ck].blocks = popped,
                              !.chunks[ck].dirty = TRUE]
    IN  IF pos \notin DOMAIN w.blocks THEN w ELSE mark_dirty(w2, pos)

\* ReplayWorld._remove_block
remove_block(w, pos) ==
    LET ck == chunk_key(pos)
        w1 == [w EXCEPT !.blocks = Del(@, pos),
                        !.solid = @ \ {pos},
                        !.liquid = @ \ {pos}]
        popped == Del(w.chunks[ck].blocks, pos)
        rel == release_chunk_gpu(w.chunks[ck], w.gpu)
        w2 == IF ck \notin DOMAIN w.chunks THEN w1
              ELSE IF DOMAIN popped = {}
                   THEN [w1 EXCEPT !.chunks = Del(@, ck), !.gpu = rel[2]]
                   ELSE [w1 EXCEPT !.chunks[ck].blocks = popped,
                                   !.chunks[ck].dirty = TRUE]
    IN  IF pos \notin DOMAIN w.blocks THEN w ELSE mark_dirty(w2, pos)

\* `if variant_key != block_id and variant_key not in self._face_tex_cache:
\* self._cache_block(variant_key)`, given rv = <<registry afterwards,
\* variant_key>>: <<world afterwards, render key>>
cache_variant(w, rv, block_id) ==
    IF rv[2] # PlainKey(block_id) /\ rv[2] \notin DOMAIN w.cache
    THEN <<cache_block([w EXCEPT !.registry = rv[1]], rv[2]), rv[2]>>
    ELSE <<[w EXCEPT !.registry = rv[1]], rv[2]>>

\* ReplayWorld._resolve_block_key: <<world afterwards, render key>>
resolve_block_key(w, block_id, properties) ==
    IF properties = "" THEN <<w, PlainKey(block_id)>>
    ELSE CHOOSE out \in {cache_variant(w, rv, block_id) :
                             rv \in {register_block_variant(w.registry, block_id,
                                                            properties, PLAINS)}} : TRUE

\* `key = self._resolve_block_key(block_id, properties);
\* self._set_block(x, y, z, key)`, given rk = <<world afterwards, key>>
set_resolved(rk, pos) == set_block(rk[1], pos, rk[2])

\* the loop body without the `(x, y, z) not in self.blocks` test of block_seen
process_event_seen_overwrites(w, ev) ==
    LET pos == <<ev.x, ev.y, ev.z>>
    IN  IF ev.event = "block_seen"
        THEN IF ev.blockId # "" /\ ev.blockId # AIR
             THEN set_resolved(resolve_block_key(w, ev.blockId,
                                                 ev.blockStateProperties), pos)
             ELSE w
        ELSE IF ev.event = "block_changed"
        THEN IF ev.blockId = AIR
             THEN remove_block(w, pos)
             ELSE set_resolved(resolve_block_key(w, ev.blockId,
                                                 ev.blockStateProperties), pos)
        ELSE w

\* the loop body with block_changed guarded like block_seen
process_event_changed_as_seen(w, ev) ==
    LET pos == <<ev.x, ev.y, ev.z>>
    IN  IF ev.event = "block_seen" \/ ev.event = "block_changed"
        THEN IF ev.blockId # "" /\ ev.blockId # AIR /\ pos \notin DOMAIN w.blocks
             THEN set_resolved(resolve_block_key(w, ev.blockId,
                                                 ev.blockStateProperties), pos)
             ELSE w
        ELSE w

\* the body of the `for event in events` loop of ReplayWorld._process_tick
process_event(w, ev) ==
    LET pos == <<ev.x, ev.y, ev.z>>
    IN  IF ev.event = "block_seen"
        THEN IF ev.blockId # "" /\ ev.blockId # AIR /\ pos \notin DOMAIN w.blocks
             THEN set_resolved(resolve_block_key(w, ev.blockId,
                                                 ev.blockStateProperties), pos)
             ELSE w
        ELSE IF ev.event = "block_changed"
        THEN IF ev.blockId = AIR
             THEN remove_block(w, pos)
             ELSE set_resolved(resolve_block_key(w, ev.blockId,
                                                 ev.blockStateProperties), pos)
        ELSE w

\* ReplayWorld._process_tick on the event list of one tick
RECURSIVE process_events(_, _)
process_events(w, events) ==
    IF events = <<>> THEN w
    ELSE process_events(process_event(w, Head(events)), Tail(events))

\* ReplayWorld.reset
reset(w) ==
    LET RECURSIVE ReleaseAll(_, _)
        ReleaseAll(ks, gpu) ==
            IF ks = {} THEN gpu
            ELSE LET k == CHOOSE q \in ks : TRUE
                 IN  ReleaseAll(ks \ {k}, release_chunk_gpu(w.chunks[k], gpu)[2])
    IN  [w EXCEPT !.gpu = ReleaseAll(DOMAIN w.chunks, w.gpu),
                  !.chunks = EmptyDict,
                  !.blocks = EmptyDict,
                  !.solid = {},
                  !.liquid = {},
                  !.current_tick = 0,
                  !.any_dirty = FALSE]

\* a newly created GPU object: its identity differs from every live object
\* and from every object released earlier in the same operation
FreshId(gpu) == CHOOSE n \in 0..Cardinality(gpu.live \cup gpu.freed) :
                    n \notin gpu.live \cup gpu.freed

\* ctx.buffer(data): <<gpu afterwards, buffer>>
ctx_buffer(gpu, data) ==
    <<[gpu EXCEPT !.live = @ \cup {FreshId(gpu)}],
      [id |-> FreshId(gpu), data |-> data]>>

\* ctx.vertex_array(program, [(vbo, fmt, *attrs)]): <<gpu afterwards, vertex array>>
ctx_vertex_array(gpu, vbo) ==
    <<[gpu EXCEPT !.live = @ \cup {FreshId(gpu)}],
      [id |-> FreshId(gpu), buffer |-> vbo.id]>>

\* `chunk.vbo = ctx.buffer(...)` then `chunk.vao = ctx.vertex_array(...)`,
\* given the pair vb = <<gpu afterwards, buffer>> and va likewise:
\* <<chunk afterwards, gpu afterwards>>
with_buffers(chunk, vb, va, vbo_slot, vao_slot) ==
    <<[chunk EXCEPT ![vbo_slot] = vb[2], ![vao_slot] = va[2]], va[1]>>

with_buffer(chunk, vb, vbo_slot, vao_slot) ==
    with_buffers(chunk, vb, ctx_vertex_array(vb[1], vb[2]), vbo_slot, vao_slot)

\* the upload without its `if len(data) > 0` test
upload_even_if_empty(cg, data, vbo_slot, vao_slot) ==
    with_buffer(cg[1], ctx_buffer(cg[2], data), vbo_slot, vao_slot)

\* `if len(data) > 0: chunk.vbo = ...; chunk.vao = ...` on cg = <<chunk, gpu>>
upload(cg, data, vbo_slot, vao_slot) ==
    IF Len(data) > 0
    THEN with_buffer(cg[1], ctx_buffer(cg[2], data), vbo_slot, vao_slot)
    ELSE cg

\* the opaque and then the transparent buffers of _rebuild_chunk
store_mesh(cg, mesh) ==
    upload(upload(cg, mesh.opaque, "vbo", "vao"), mesh.trans, "vbo_trans", "vao_trans")

\* `chunk.dirty = False`
clean(cg) == <<[cg[1] EXCEPT !.dirty = FALSE], cg[2]>>

\* _rebuild_chunk without the _release_chunk_gpu call before the new buffers
rebuild_chunk_without_release(chunk, w, gpu) ==
    IF DOMAIN chunk.blocks = {}
    THEN clean(release_chunk_gpu(chunk, gpu))
    ELSE clean(store_mesh(<<chunk, gpu>>,
                          build_chunk_mesh(chunk.blocks, w.solid, w.liquid, w.cache)))

\* ReplayWorld._rebuild_chunk: <<chunk afterwards, gpu afterwards>>
rebuild_chunk(chunk, w, gpu) ==
    IF DOMAIN chunk.blocks = {}
    THEN clean(release_chunk_gpu(chunk, gpu))
    ELSE clean(store_mesh(release_chunk_gpu(chunk, gpu),
                          build_chunk_mesh(chunk.blocks, w.solid, w.liquid, w.cache)))

\* the world with chunk k and the gpu replaced by the pair cg
with_chunk(w, k, cg) == [w EXCEPT !.chunks[k] = cg[1], !.gpu = cg[2]]

\* rebuild_mesh without the `if chunk.dirty` test
rebuild_mesh_every_chunk(w) ==
    LET RECURSIVE Loop(_, _)
        Loop(ks, ww) ==
            IF ks = <<>> THEN ww
            ELSE Loop(Tail(ks),
                      with_chunk(ww, Head(ks),
                                 rebuild_chunk(ww.chunks[Head(ks)], ww, ww.gpu)))
    IN  [Loop(SortedPositions(DOMAIN w.chunks), w) EXCEPT !.any_dirty = FALSE]

\* ReplayWorld.rebuild_mesh
rebuild_mesh(w) ==
    LET RECURSIVE Loop(_, _)
        Loop(ks, ww) ==
            IF ks = <<>> THEN ww
            ELSE IF ww.chunks[Head(ks)].dirty
            THEN Loop(Tail(ks),
                      with_chunk(ww, Head(ks),
                                 rebuild_chunk(ww.chunks[Head(ks)], ww, ww.gpu)))
            ELSE Loop(Tail(ks), ww)
    IN  [Loop(SortedPositions(DOMAIN w.chunks), w) EXCEPT !.any_dirty = FALSE]

\* the start of an operation: what the one before released is gone
BeginOp(w) == [w EXCEPT !.gpu.freed = {}]

(***************************************************************************)
(* The replay (replay_loader.py): world events grouped by tick.            *)
(***************************************************************************)
EventsOver(positions, event_blocks) ==
    {[event |-> k, x |-> p[1], y |-> p[2], z |-> p[3],
      blockId |-> b[1], blockStateProperties |-> b[2]] :
        k \in {"block_seen", "block_changed"}, p \in positions, b \in event_blocks}

\* the events a recorded replay of SpecReplay is made of
ReplayPositions == {<<0, 0, 0>>, <<-1, 0, 0>>}
ReplayBlocks == {<<STONE, "">>, <<AIR, "">>}
ReplayEvents == EventsOver(ReplayPositions, ReplayBlocks)

\* the events the replay loader of Spec may hand out: positions in four
\* chunks around the origin (on the chunk faces of each axis, inside a
\* chunk, at negative coordinates, adjacent inside a chunk and across
\* chunks), and a full-opaque block, a liquid, and air
WorldPositions == {<<0, 0, 0>>, <<-1, 0, 0>>, <<0, -1, 0>>, <<0, 0, -1>>,
                   <<1, 1, 1>>, <<0, 1, 0>>}
WorldBlocks == {<<STONE, "">>, <<WATER, "">>, <<AIR, "">>}
WorldEvents == EventsOver(WorldPositions, WorldBlocks)

EventLists(events, n) == UNION {[1..k -> events] : k \in 0..n}

\* the event lists of k consecutive ticks holding at most n events in all
RECURSIVE TickLists(_, _)
TickLists(k, n) ==
    IF k = 0 THEN {<<>>}
    ELSE UNION {{<<l>> \o rest : rest \in TickLists(k - 1, n - Len(l))} :
                    l \in EventLists(ReplayEvents, n)}

\* ReplayLoader: max_tick and block_events_by_tick (tick t at index t + 1)
Replays == {[max_tick |-> MaxTick, block_events_by_tick |-> s] :
                s \in TickLists(MaxTick + 1, MaxEvents)}

\* the replay of Spec: its event lists are not fixed beforehand, the
\* loader hands out the events of a tick when the world asks for them
OpenReplay == [max_tick |-> MaxTick, block_events_by_tick |-> <<>>]

\* ReplayLoader.get_events_for_tick
get_events_for_tick(r, tick) ==
    IF tick + 1 \in DOMAIN r.block_events_by_tick
    THEN r.block_events_by_tick[tick + 1] ELSE <<>>

\* ReplayLoader.get_all_unique_block_ids
get_all_unique_block_ids(r) ==
    {r.block_events_by_tick[q[1]][q[2]].blockId :
        q \in {q \in (DOMAIN r.block_events_by_tick) \X (1..MaxEvents + 1) :
                 q[2] <= Len(r.block_events_by_tick[q[1]])}}
    \ {"", AIR}

(***************************************************************************)
(* State: the replay, the fields of ReplayWorld, the position of           *)
(* advance_to_tick / _process_tick (pc, target_tick, ev_idx), and a        *)
(* history variable: call (the current_tick and argument advance_to_tick   *)
(* was called with, the <<tick, event index>> pairs it has applied, and    *)
(* whether reset() ran since the last return of advance_to_tick), and     *)
(* handed (the number of events the loader handed out since the world was  *)
(* constructed or reset), and last (the operation that ran last: its name, *)
(* for a world event the event and the render key its position held       *)
(* before, the chunks that were dirty before).  probe is the call of a     *)
(* function of the registry or of the mesh builder made on its own,        *)
(* outside a playback: its name, its arguments and, once it has returned,  *)
(* its result.                                                             *)
(***************************************************************************)
VARIABLES replay, blocks, solid, liquid, chunks, any_dirty, current_tick,
          registry, cache, gpu, pc, target_tick, ev_idx, call, handed, last,
          probe

vars == <<replay, blocks, solid, liquid, chunks, any_dirty, current_tick,
          registry, cache, gpu, pc, target_tick, ev_idx, call, handed, last,
          probe>>

worldVars == <<blocks, solid, liquid, chunks, any_dirty, current_tick,
               registry, cache, gpu>>

\* the world as one value, and its assignment to the variables
World == [blocks |-> blocks, solid |-> solid, liquid |-> liquid, chunks |-> chunks,
          any_dirty |-> any_dirty, current_tick |-> current_tick,
          registry |-> registry, cache |-> cache, gpu |-> gpu]

Becomes(w) ==
    /\ blocks' = w.blocks
    /\ solid' = w.solid
    /\ liquid' = w.liquid
    /\ chunks' = w.chunks
    /\ any_dirty' = w.any_dirty
    /\ current_tick' = w.current_tick
    /\ registry' = w.registry
    /\ cache' = w.cache
    /\ gpu' = w.gpu

Is(w) ==
    /\ blocks = w.blocks
    /\ solid = w.solid
    /\ liquid = w.liquid
    /\ chunks = w.chunks
    /\ any_dirty = w.any_dirty
    /\ current_tick = w.current_tick
    /\ registry = w.registry
    /\ cache = w.cache
    /\ gpu = w.gpu

\* ReplayWorld.__init__ up to the registration loop: empty world, every
\* block id of the replay registered and cached
RegisteredWorld(ids) ==
    LET empty == [blocks |-> EmptyDict, solid |-> {}, liquid |-> {},
                  chunks |-> EmptyDict, any_dirty |-> FALSE, current_tick |-> 0,
                  registry |-> NewRegistry, cache |-> EmptyDict,
                  gpu |-> [live |-> {}, bad_release |-> FALSE, freed |-> {}]]
        RECURSIVE RegisterAll(_, _)
        RegisterAll(w, rest) ==
            IF rest = {} THEN w
            ELSE LET bid == CHOOSE q \in rest : TRUE
                 IN  RegisterAll(world_register_block(w, PlainKey(bid)), rest \ {bid})
    IN  RegisterAll(empty, ids)

\* ReplayWorld.__init__: then tick 0 is processed
NewWorld(ids, events0) == process_events(RegisteredWorld(ids), events0)

NoCall == [tick |-> 0, target |-> 0, applied |-> <<>>, after_reset |-> FALSE]

NoEvent == [event |-> "", x |-> 0, y |-> 0, z |-> 0,
            blockId |-> "", blockStateProperties |-> ""]
NoKey == <<"", "">>
NoOp == [op |-> "", ev |-> NoEvent, before |-> NoKey, dirty_before |-> {}]
NoProbe == [fn |-> "", done |-> FALSE]

DirtyChunks == {k \in DOMAIN chunks : chunks[k].dirty}

InitControl(events0) ==
    /\ handed = Len(events0)
    /\ last = NoOp
    /\ pc = "idle"
    /\ target_tick = 0
    /\ ev_idx = 0
    /\ call = NoCall

\* a recorded replay
InitReplay ==
    /\ replay \in Replays
    /\ Is(NewWorld(get_all_unique_block_ids(replay), get_events_for_tick(replay, 0)))
    /\ InitControl(get_events_for_tick(replay, 0))
    /\ probe = NoProbe

\* a replay whose events are handed out tick by tick
Init ==
    /\ replay = OpenReplay
    /\ \E events0 \in EventLists(WorldEvents, MaxEvents) :
           /\ Is(NewWorld({b[1] : b \in WorldBlocks} \ {"", AIR}, events0))
           /\ InitControl(events0)
    /\ probe = NoProbe

Min(a, b) == IF a < b THEN a ELSE b
Max(a, b) == IF a > b THEN a ELSE b

\* advance_to_tick without `min(target_tick, self.replay.max_tick)`
AdvanceToTickUnclamped(t) ==
    /\ pc = "idle"
    /\ pc' = "while"
    /\ target_tick' = t
    /\ call' = [tick |-> current_tick, target |-> t, applied |-> <<>>,
                after_reset |-> call.after_reset]
    /\ last' = NoOp
    /\ UNCHANGED <<replay, probe, worldVars, ev_idx, handed>>

\* ReplayWorld.advance_to_tick is called: target_tick = min(target_tick, max_tick)
AdvanceToTick(t) ==
    /\ pc = "idle"
    /\ pc' = "while"
    /\ target_tick' = Min(t, replay.max_tick)
    /\ call' = [tick |-> current_tick, target |-> t, applied |-> <<>>,
                after_reset |-> call.after_reset]
    /\ last' = NoOp
    /\ UNCHANGED <<replay, probe, worldVars, ev_idx, handed>>

\* `while self.current_tick < target_tick: self.current_tick += 1`, entering
\* _process_tick, or the return of advance_to_tick
WhileStep ==
    /\ pc = "while"
    /\ IF current_tick < target_tick
       THEN /\ current_tick' = current_tick + 1
            /\ pc' = "for"
            /\ ev_idx' = 1
            /\ UNCHANGED <<target_tick, call>>
       ELSE /\ pc' = "idle"
            /\ target_tick' = 0
            /\ call' = NoCall
            /\ UNCHANGED <<current_tick, ev_idx>>
    /\ last' = NoOp
    /\ UNCHANGED <<replay, probe, blocks, solid, liquid, chunks, any_dirty,
                   registry, cache, gpu, handed>>

\* the `for event in events` loop of _process_tick comes to its end
ForEnd ==
    /\ pc' = "while"
    /\ ev_idx' = 0
    /\ last' = NoOp
    /\ UNCHANGED <<replay, probe, worldVars, target_tick, call, handed>>

\* the loop body runs on the next event
ForBody(ev) ==
    /\ Becomes(process_event(BeginOp(World), ev))
    /\ last' = [op |-> "event", ev |-> ev,
                before |-> IF <<ev.x, ev.y, ev.z>> \in DOMAIN blocks
                           THEN blocks[<<ev.x, ev.y, ev.z>>] ELSE NoKey,
                dirty_before |-> DirtyChunks]
    /\ ev_idx' = ev_idx + 1
    /\ call' = [call EXCEPT !.applied = Append(@, <<current_tick, ev_idx>>)]
    /\ handed' = handed + 1
    /\ UNCHANGED <<replay, probe, pc, target_tick>>

\* one step of the loop over the recorded events of the current tick
ForStep ==
    /\ pc = "for"
    /\ LET events == get_events_for_tick(replay, current_tick)
       IN  IF ev_idx <= Len(events) THEN ForBody(events[ev_idx]) ELSE ForEnd

\* one step of the loop over the events the loader hands out for the tick
ForStepOpen ==
    /\ pc = "for"
    /\ \/ /\ handed < MaxEvents
          /\ \E ev \in WorldEvents : ForBody(ev)
       \/ ForEnd

\* ReplayWorld.reset
Reset ==
    /\ pc = "idle"
    /\ Becomes(reset(BeginOp(World)))
    /\ last' = [NoOp EXCEPT !.op = "reset", !.dirty_before = DirtyChunks]
    /\ call' = [NoCall EXCEPT !.after_reset = TRUE]
    /\ handed' = 0
    /\ UNCHANGED <<replay, probe, pc, target_tick, ev_idx>>

\* ReplayWorld.rebuild_mesh
RebuildMesh ==
    /\ pc = "idle"
    /\ Becomes(rebuild_mesh(BeginOp(World)))
    /\ last' = [NoOp EXCEPT !.op = "rebuild_mesh", !.dirty_before = DirtyChunks]
    /\ UNCHANGED <<replay, probe, pc, target_tick, ev_idx, call, handed>>

Next ==
    \/ \E t \in 0..MaxTick + 1 : AdvanceToTick(t)
    \/ WhileStep
    \/ ForStepOpen
    \/ Reset
    \/ RebuildMesh

Spec == Init /\ [][Next]_vars

NextReplay ==
    \/ \E t \in 0..MaxTick + 1 : AdvanceToTick(t)
    \/ WhileStep
    \/ ForStep
    \/ Reset
    \/ RebuildMesh

SpecReplay == InitReplay /\ [][NextReplay]_vars

(***************************************************************************)
(* Properties.                                                             *)
(***************************************************************************)
EvPos(ev) == <<ev.x, ev.y, ev.z>>

\* the render key _resolve_block_key gives the block of an event
EvKey(ev) == resolve_block_key(World, ev.blockId, ev.blockStateProperties)[2]

\* a step of the loop body of _process_tick: it ran on the event last'.ev
EventStep == pc = "for" /\ pc' = "for"

\* advance_to_tick is about to return
Returning == pc = "while" /\ ~(current_tick < target_tick)

\* the world a fresh construction followed by a forward advance to tick T gives
FreshWorldAt(r, T) ==
    LET RECURSIVE Go(_, _)
        Go(w, t) ==
            IF t > T THEN w
            ELSE Go(process_events([w EXCEPT !.current_tick = t],
                                   get_events_for_tick(r, t)), t + 1)
    IN  Go(NewWorld(get_all_unique_block_ids(r), get_events_for_tick(r, 0)), 1)

(* C1: when advance_to_tick returns after a reset(), at tick T, the blocks  *)
(* mapping is the one of a freshly constructed world advanced forward from *)
(* tick 0 to T, the blocks of tick 0's own events included.                *)
C1_RewindMatchesFreshWorld ==
    (Returning /\ call.after_reset) =>
        blocks = FreshWorldAt(replay, current_tick).blocks

\* a block_seen event the loop body ignores / applies
SeenIgnored(ev) ==
    ev.event = "block_seen" /\ (EvPos(ev) \in DOMAIN blocks \/ ev.blockId \in {"", AIR})
SeenApplied(ev) ==
    ev.event = "block_seen" /\ EvPos(ev) \notin DOMAIN blocks /\ ev.blockId \notin {"", AIR}

(* C2: a block_seen event at a position that already has a block (or with  *)
(* an empty or air id) leaves blocks, solid, liquid and every chunk (block *)
(* map and dirty flag) unchanged, whatever id it carries; at an absent     *)
(* position with a real id it takes effect.                                *)
C2_SeenNeverOverwrites ==
    [][EventStep =>
          LET ev == last'.ev
          IN  /\ SeenIgnored(ev) => UNCHANGED <<blocks, solid, liquid, chunks>>
              /\ SeenApplied(ev) => /\ EvPos(ev) \in DOMAIN blocks'
                                    /\ blocks'[EvPos(ev)] = EvKey(ev)]_vars

\* the last step ran block_seen with another block id on an occupied position
C2_Witness ==
    /\ last.op = "event"
    /\ last.ev.event = "block_seen"
    /\ last.ev.blockId \notin {"", AIR}
    /\ last.before # NoKey
    /\ last.before # PlainKey(last.ev.blockId)
    /\ blocks[EvPos(last.ev)] = last.before

NoAirBlock == \A p \in DOMAIN blocks : BaseId(blocks[p]) # AIR

(* C3: a block_changed event is always applied: with a non-air id the      *)
(* position maps to the resolved render key afterwards, whatever was there *)
(* before; with air the position is afterwards absent from blocks, solid,  *)
(* liquid and every chunk's block map; no position ever maps to air.       *)
C3_ChangedAlwaysApplied ==
    /\ []NoAirBlock
    /\ [][(EventStep /\ last'.ev.event = "block_changed") =>
            LET ev == last'.ev
            IN  IF ev.blockId # AIR
                THEN /\ EvPos(ev) \in DOMAIN blocks'
                     /\ blocks'[EvPos(ev)] = EvKey(ev)
                ELSE /\ EvPos(ev) \notin DOMAIN blocks'
                     /\ EvPos(ev) \notin solid'
                     /\ EvPos(ev) \notin liquid'
                     /\ \A k \in DOMAIN chunks' :
                            EvPos(ev) \notin DOMAIN chunks'[k].blocks]_vars

\* the last step ran block_changed over a different block
C3_Witness ==
    /\ last.op = "event"
    /\ last.ev.event = "block_changed"
    /\ last.ev.blockId # AIR
    /\ last.before # NoKey
    /\ last.before # PlainKey(last.ev.blockId)
    /\ blocks[EvPos(last.ev)] = PlainKey(last.ev.blockId)

\* the <<tick, event index>> pairs of the ticks from + 1 .. to, in order
ExpectedApplied(r, from, to) ==
    LET RECURSIVE Go(_)
        Go(t) == IF t > to THEN <<>>
                 ELSE [i \in 1..Len(get_events_for_tick(r, t)) |-> <<t, i>>] \o Go(t + 1)
    IN  Go(from + 1)

DescriptorIsFull(key) ==
    IF key \in DOMAIN registry.desc THEN registry.desc[key].is_full ELSE TRUE

(* C5: at every point of every run of events, advances and resets, solid   *)
(* is exactly the positions of blocks whose render key's descriptor is     *)
(* full-opaque, and liquid exactly the positions of blocks whose base id   *)
(* is water or lava; so neither holds a position absent from blocks.       *)
C5_SolidLiquidDerivable ==
    /\ solid = {p \in DOMAIN blocks : DescriptorIsFull(blocks[p])}
    /\ liquid = {p \in DOMAIN blocks : BaseId(blocks[p]) \in {WATER, LAVA}}

\* the last step changed a full-opaque block into water
C5_Witness ==
    /\ last.op = "event"
    /\ last.ev.event = "block_changed"
    /\ last.ev.blockId = WATER
    /\ last.before = PlainKey(STONE)
    /\ EvPos(last.ev) \in liquid
    /\ EvPos(last.ev) \notin solid

(* C6: a chunk exists iff a block lies in its 16x16x16 region: no chunk    *)
(* has an empty block map, every position of a chunk's block map lies in   *)
(* the region 16*key .. 16*key + 15 of that chunk on each axis (negative   *)
(* coordinates too), and the chunks' block maps together are the blocks    *)
(* mapping, with the same render keys.                                     *)
C6_ChunksPartitionBlocks ==
    /\ \A k \in DOMAIN chunks :
        /\ DOMAIN chunks[k].blocks # {}
        /\ \A p \in DOMAIN chunks[k].blocks :
            /\ \A a \in 1..3 : CHUNK_SIZE * k[a] <= p[a] /\ p[a] <= CHUNK_SIZE * k[a] + 15
            /\ p \in DOMAIN blocks
            /\ blocks[p] = chunks[k].blocks[p]
    /\ \A p \in DOMAIN blocks :
        \E k \in DOMAIN chunks : p \in DOMAIN chunks[k].blocks

\* the last step removed the last block of a chunk at negative coordinates
C6_Witness ==
    /\ last.op = "event"
    /\ last.ev.blockId = AIR
    /\ last.before # NoKey
    /\ \E a \in 1..3 : EvPos(last.ev)[a] < 0
    /\ chunk_key(EvPos(last.ev)) \notin DOMAIN chunks

\* an event that adds, overwrites or removes a block
Touches(ev) ==
    \/ SeenApplied(ev)
    \/ ev.event = "block_changed" /\ ev.blockId # AIR
    \/ ev.event = "block_changed" /\ ev.blockId = AIR /\ EvPos(ev) \in DOMAIN blocks

\* the key of the chunk d chunks further along axis a
Across(k, a, d) == [k EXCEPT ![a] = @ + d]

(* C7: every add, overwrite or removal leaves the chunk of the position    *)
(* dirty if it still exists; on each axis where the local coordinate is 0  *)
(* (15) the existing chunk below (above) on that axis is dirty afterwards; *)
(* on each axis where it is strictly between, the chunks next along that   *)
(* axis keep their dirty flag.                                             *)
C7_DirtyMarking ==
    [][(EventStep /\ Touches(last'.ev)) =>
          LET pos == EvPos(last'.ev)
              ck == chunk_key(pos)
          IN  /\ ck \in DOMAIN chunks' => chunks'[ck].dirty
              /\ \A a \in 1..3 :
                  LET l == pos[a] % CHUNK_SIZE
                  IN  /\ (l = 0 /\ Across(ck, a, -1) \in DOMAIN chunks')
                            => chunks'[Across(ck, a, -1)].dirty
                      /\ (l = 15 /\ Across(ck, a, 1) \in DOMAIN chunks')
                            => chunks'[Across(ck, a, 1)].dirty
                      /\ (0 < l /\ l < 15) =>
                            \A d \in {-1, 1} :
                                Across(ck, a, d) \in DOMAIN chunks =>
                                    /\ Across(ck, a, d) \in DOMAIN chunks'
                                    /\ chunks'[Across(ck, a, d)].dirty
                                         = chunks[Across(ck, a, d)].dirty]_vars

\* the last event, on a chunk face, made the clean chunk across the face dirty
C7_Witness ==
    /\ last.op = "event"
    /\ EvPos(last.ev) \in DOMAIN blocks
    /\ last.before # blocks[EvPos(last.ev)]
    /\ \E a \in 1..3, d \in {-1, 1} :
        LET nk == Across(chunk_key(EvPos(last.ev)), a, d)
        IN  /\ EvPos(last.ev)[a] % CHUNK_SIZE = (IF d = 1 THEN 15 ELSE 0)
            /\ nk \in DOMAIN chunks
            /\ nk \notin last.dirty_before
            /\ chunks[nk].vbo # None
            /\ chunks[nk].dirty

\* the identities of the GPU objects a chunk holds
Slots == {"vao", "vbo", "vao_trans", "vbo_trans"}
ChunkObjs(c) == {c[s].id : s \in {s \in Slots : c[s] # None}}

(* C8: rebuild_mesh leaves every clean chunk as it is, its buffers neither *)
(* released nor reallocated, and leaves blocks, solid and liquid unchanged;*)
(* afterwards every existing chunk is clean and any_dirty is false.        *)
C8_RebuildOnlyDirty ==
    [][(pc = "idle" /\ last'.op = "rebuild_mesh") =>
          /\ DOMAIN chunks' = DOMAIN chunks
          /\ \A k \in DOMAIN chunks :
                ~chunks[k].dirty => /\ chunks'[k] = chunks[k]
                                    /\ ChunkObjs(chunks[k]) \subseteq gpu'.live
                                    /\ ChunkObjs(chunks[k]) \cap gpu'.freed = {}
          /\ UNCHANGED <<blocks, solid, liquid>>
          /\ \A k \in DOMAIN chunks' : ~chunks'[k].dirty
          /\ any_dirty' = FALSE]_vars

\* rebuild_mesh ran on a dirty chunk while another chunk, clean, held buffers
C8_Witness ==
    /\ last.op = "rebuild_mesh"
    /\ last.dirty_before # {}
    /\ \E k \in DOMAIN chunks \ last.dirty_before : chunks[k].vbo # None
    /\ \E k \in last.dirty_before : k \in DOMAIN chunks /\ chunks[k].vbo # None

\* the slots of the existing chunks that hold a GPU object
Held == {q \in (DOMAIN chunks) \X Slots : chunks[q[1]][q[2]] # None}

(* C9: every GPU object allocated and not released is held by exactly one  *)
(* slot of one existing chunk, and every object a chunk holds is live; the *)
(* objects of a chunk that is deleted (last block removed, reset) or whose *)
(* buffers are replaced by a remesh are released; none is released twice.  *)
C9_NoBufferLeak ==
    /\ [](/\ ~gpu.bad_release
          /\ gpu.live = {chunks[q[1]][q[2]].id : q \in Held}
          /\ Cardinality(Held) = Cardinality(gpu.live)
          /\ \A k \in DOMAIN chunks :
                /\ chunks[k].vao # None => /\ chunks[k].vbo # None
                                           /\ chunks[k].vao.buffer = chunks[k].vbo.id
                /\ chunks[k].vao_trans # None =>
                                           /\ chunks[k].vbo_trans # None
                                           /\ chunks[k].vao_trans.buffer = chunks[k].vbo_trans.id)
    /\ [][\A q \in Held :
            (q[1] \notin DOMAIN chunks' \/ chunks'[q[1]][q[2]] # chunks[q[1]][q[2]])
                => /\ chunks[q[1]][q[2]].id \in gpu'.freed
                   /\ (q[1] \in DOMAIN chunks' /\ chunks'[q[1]][q[2]] # None)
                        => chunks'[q[1]][q[2]].id # chunks[q[1]][q[2]].id]_vars

\* a remesh released the buffers of a chunk and gave it new ones
C9_Witness ==
    /\ last.op = "rebuild_mesh"
    /\ gpu.freed # {}
    /\ gpu.live # {}
    /\ gpu.live \cap gpu.freed = {}

\* a block the mesh builder takes the Cube path for
IsCubeBlock(p) ==
    /\ p \in DOMAIN blocks
    /\ CacheGet(cache, blocks[p], "render_type", RENDER_CUBE) = RENDER_CUBE

\* the position offset by the normal of a face
FaceNeighbour(p, face_id) ==
    <<p[1] + FACE_NORMALS[face_id + 1][1],
      p[2] + FACE_NORMALS[face_id + 1][2],
      p[3] + FACE_NORMALS[face_id + 1][3]>>

\* a quad of block p lying in the plane of its face face_id
OnFace(q, p, face_id) ==
    /\ q.pos = p
    /\ \A a \in 1..3 :
        /\ FACE_NORMALS[face_id + 1][a] = 1 => \A c \in 1..4 : q.verts[c][a] = 2000
        /\ FACE_NORMALS[face_id + 1][a] = -1 => \A c \in 1..4 : q.verts[c][a] = 0

\* the number of quads of a mesh (opaque and transparent) on a face of block p
FaceQuads(mesh, p, face_id) ==
    Cardinality({i \in 1..Len(mesh.opaque) : OnFace(mesh.opaque[i], p, face_id)})
    + Cardinality({i \in 1..Len(mesh.trans) : OnFace(mesh.trans[i], p, face_id)})

FaceCulled(p, face_id) ==
    \/ FaceNeighbour(p, face_id) \in solid
    \/ /\ BaseId(blocks[p]) \in {WATER, LAVA}
       /\ FaceNeighbour(p, face_id) \in liquid

\* the mesh build_chunk_mesh returned for a chunk when it was last rebuilt
StoredMesh(c) ==
    [opaque |-> IF c.vbo = None THEN <<>> ELSE c.vbo.data,
     trans |-> IF c.vbo_trans = None THEN <<>> ELSE c.vbo_trans.data]

(* C10: for every Cube block of a chunk rebuild_mesh has just rebuilt and  *)
(* each of its 6 faces, the mesh build_chunk_mesh returned for the chunk   *)
(* has exactly one quad on that face when the position offset by the face  *)
(* normal is not in solid (and, for water and lava, not in liquid), and    *)
(* none otherwise, whether the neighbour lies in the same chunk or in      *)
(* another one.                                                            *)
C10_FaceCulling ==
    last.op = "rebuild_mesh" =>
        \A k \in DOMAIN chunks \cap last.dirty_before :
            \A p \in DOMAIN chunks[k].blocks :
                IsCubeBlock(p) =>
                    \A face_id \in 0..5 :
                        FaceQuads(StoredMesh(chunks[k]), p, face_id)
                            = (IF FaceCulled(p, face_id) THEN 0 ELSE 1)

\* two full-opaque Cube blocks adjacent across a chunk border were meshed:
\* the buffer of each chunk holds the 5 other faces
C10_Witness ==
    /\ last.op = "rebuild_mesh"
    /\ \E p \in solid, face_id \in 0..5 :
        /\ FaceNeighbour(p, face_id) \in solid
        /\ chunk_key(FaceNeighbour(p, face_id)) # chunk_key(p)
        /\ IsCubeBlock(p)
        /\ IsCubeBlock(FaceNeighbour(p, face_id))
        /\ {chunk_key(p), chunk_key(FaceNeighbour(p, face_id))} \subseteq last.dirty_before
        /\ Len(chunks[chunk_key(p)].vbo.data) = 5
        /\ Len(chunks[chunk_key(FaceNeighbour(p, face_id))].vbo.data) = 5

\* the one event of the replay of C11
StoneSeenAtOrigin ==
    [event |-> "block_seen", x |-> 0, y |-> 0, z |-> 0,
     blockId |-> STONE, blockStateProperties |-> ""]

\* the replay holds that event at tick 0 and nothing else
OnlyStoneSeen ==
    /\ get_events_for_tick(replay, 0) = <<StoneSeenAtOrigin>>
    /\ \A t \in 1..replay.max_tick : get_events_for_tick(replay, t) = <<>>

\* the world constructed from that replay has not been reset (its event was
\* handed out) and rebuild_mesh has not run on it
FreshStoneWorld == OnlyStoneSeen /\ handed = 1 /\ any_dirty /\ current_tick = 0

\* the number of corner vertices and of triangle indices of a buffer
RECURSIVE CornerCount(_)
CornerCount(buf) ==
    IF buf = <<>> THEN 0 ELSE Len(Head(buf).verts) + CornerCount(Tail(buf))

RECURSIVE IndexCount(_)
IndexCount(buf) ==
    IF buf = <<>> THEN 0 ELSE Len(Head(buf).order) + IndexCount(Tail(buf))

(* C11: for the replay whose only event is block_seen of minecraft:stone   *)
(* at (0,0,0) at tick 0, when advance_to_tick(0) returns on the freshly    *)
(* constructed world, blocks maps (0,0,0) to minecraft:stone, solid        *)
(* contains (0,0,0), and exactly one chunk exists and it is dirty; and     *)
(* rebuild_mesh then gives that chunk an opaque buffer of exactly the 6    *)
(* faces of the block (24 corner vertices, 36 triangle indices) and no     *)
(* transparent buffer.                                                     *)
C11_SingleStoneEndToEnd ==
    /\ [](FreshStoneWorld /\ Returning /\ call.target = 0 =>
            /\ DOMAIN blocks = {<<0, 0, 0>>}
            /\ blocks[<<0, 0, 0>>] = PlainKey(STONE)
            /\ <<0, 0, 0>> \in solid
            /\ DOMAIN chunks = {<<0, 0, 0>>}
            /\ chunks[<<0, 0, 0>>].dirty)
    /\ [][FreshStoneWorld /\ last'.op = "rebuild_mesh" =>
            /\ DOMAIN chunks' = {<<0, 0, 0>>}
            /\ chunks'[<<0, 0, 0>>].vbo # None
            /\ chunks'[<<0, 0, 0>>].vao # None
            /\ Len(chunks'[<<0, 0, 0>>].vbo.data) = 6
            /\ {chunks'[<<0, 0, 0>>].vbo.data[i].face_id : i \in 1..6} = 0..5
            /\ CornerCount(chunks'[<<0, 0, 0>>].vbo.data) = 24
            /\ IndexCount(chunks'[<<0, 0, 0>>].vbo.data) = 36
            /\ chunks'[<<0, 0, 0>>].vbo_trans = None
            /\ chunks'[<<0, 0, 0>>].vao_trans = None]_vars

\* rebuild_mesh has run on the world of that replay while its one chunk was
\* dirty and stored the 6 faces of the stone block
C11_Witness ==
    /\ OnlyStoneSeen
    /\ handed = 1
    /\ current_tick = 0
    /\ last.op = "rebuild_mesh"
    /\ last.dirty_before = {<<0, 0, 0>>}
    /\ blocks[<<0, 0, 0>>] = PlainKey(STONE)
    /\ Len(chunks[<<0, 0, 0>>].vbo.data) = 6

(***************************************************************************)
(* Calls of single functions.  In SpecPure the world stays as constructed  *)
(* from an empty replay; probe starts as a call with its arguments and the *)
(* one step of the call puts the result the function returns into it.      *)
(***************************************************************************)
\* the largest number of solid blocks around a block whose face is shaded
MaxSolid == 3

\* the blocks whose faces are shaded: at the origin, and on chunk borders
AOBlocks == {<<0, 0, 0>>, <<-1, 15, 16>>}

\* the offsets of the blocks around a block, numbered 0..26
AOOffset(i) == <<(i % 3) - 1, ((i \div 3) % 3) - 1, (i \div 9) - 1>>

\* the 20 of them that share an edge or a corner with the block and no face
AOIndex ==
    {i \in 0..26 : Cardinality({a \in 1..3 : AOOffset(i)[a] # 0}) >= 2}

\* the sets of at most MaxSolid of them, each as the increasing sequence of
\* its numbers after a padding of -1
AOChoices ==
    {f \in [1..MaxSolid -> {-1} \cup AOIndex] :
        \A a \in 1..MaxSolid - 1 : f[a] = -1 \/ f[a] < f[a + 1]}

\* the solid set holding the chosen blocks around b
SolidAround(b, f) ==
    {<<b[1] + AOOffset(f[a])[1], b[2] + AOOffset(f[a])[2], b[3] + AOOffset(f[a])[3]>> :
        a \in {a \in 1..MaxSolid : f[a] # -1}}

\* the call _compute_ao_corner(solid, bx, by, bz, face_id, corner)
AOCall(b, f, face_id, corner) ==
    [fn |-> "compute_ao_corner", done |-> FALSE, solid |-> SolidAround(b, f),
     b |-> b, face_id |-> face_id, corner |-> corner, out |-> 0]

\* some call of _compute_ao_corner is made
CallsAO ==
    \E b \in AOBlocks, f \in AOChoices, face_id \in 0..5, corner \in 0..3 :
        probe = AOCall(b, f, face_id, corner)

\* _compute_ao_corner returns
ReturnAO ==
    /\ probe.fn = "compute_ao_corner"
    /\ ~probe.done
    /\ probe' = [probe EXCEPT
                   !.done = TRUE,
                   !.out = compute_ao_corner(probe.solid, probe.b,
                                             probe.face_id, probe.corner)]
    /\ UNCHANGED <<replay, worldVars, pc, target_tick, ev_idx, call, handed, last>>

\* the inputs of build_chunk_mesh: the blocks of one chunk, a Cube, a Cube
\* whose sides differ, an unshaded Cube, a Cross and an Elements block with
\* the descriptors the registry gives them, the solid set (positions of the
\* chunk and two cells diagonal to them), and block_alpha (in tenths, 10
\* where the dict has no entry)
MeshPositions == {<<0, 0, 0>>, <<0, 1, 0>>}
MeshAround == {<<1, 1, -1>>, <<1, 1, 1>>}
MeshIds == {STONE, FURNACE, WATER, POPPY, STAIRS}
MeshKeys == {PlainKey(b) : b \in MeshIds}
MeshWorld == RegisteredWorld(MeshIds)

\* the per-key caches with block_alpha in the place of the alpha cache
WithAlpha(cache_, block_alpha) ==
    [k \in DOMAIN cache_ |-> [cache_[k] EXCEPT !.alpha = block_alpha[k]]]

\* the call build_chunk_mesh(blocks, solid_occupied, ..., block_alpha)
MeshCall(chunk_blocks, solid_occupied, block_alpha) ==
    [fn |-> "build_chunk_mesh", done |-> FALSE, blocks |-> chunk_blocks,
     solid |-> solid_occupied, alpha |-> block_alpha,
     out |-> [opaque |-> <<>>, trans |-> <<>>]]

\* some call of build_chunk_mesh is made
CallsMesh ==
    \E ps \in SUBSET MeshPositions,
       solid_occupied \in SUBSET (MeshPositions \cup MeshAround) :
        \E chunk_blocks \in [ps -> MeshKeys], block_alpha \in [MeshKeys -> {5, 10}] :
            probe = MeshCall(chunk_blocks, solid_occupied, block_alpha)

\* build_chunk_mesh returns
ReturnMesh ==
    /\ probe.fn = "build_chunk_mesh"
    /\ ~probe.done
    /\ probe' = [probe EXCEPT
                   !.done = TRUE,
                   !.out = build_chunk_mesh(probe.blocks, probe.solid, {},
                                            WithAlpha(MeshWorld.cache, probe.alpha))]
    /\ UNCHANGED <<replay, worldVars, pc, target_tick, ev_idx, call, handed, last>>

\* block ids registered before the grass block in the registries that
\* _bake_grass_block_sides is called on
BakeBefore == {<<>>, <<STONE>>, <<STAIRS>>, <<STONE, STAIRS>>, <<STAIRS, STONE>>}

\* the registry after register_block of the block ids, in order
RECURSIVE RegisteredInOrder(_, _)
RegisteredInOrder(reg, ids) ==
    IF ids = <<>> THEN reg
    ELSE RegisteredInOrder(register_block(reg, PlainKey(Head(ids)), PLAINS), Tail(ids))

\* a registry in which the grass block is registered for biome first
BakeRegistry(ids, first) ==
    register_block(RegisteredInOrder(NewRegistry, ids), PlainKey(GRASS_BLOCK), first)

\* the call _bake_grass_block_sides(block_id, biome), made twice
BakeCall(reg, biome) ==
    [fn |-> "bake_grass_block_sides", done |-> FALSE, reg |-> reg,
     block_id |-> GRASS_BLOCK, biome |-> biome, once |-> reg, twice |-> reg]

CallsBake ==
    \E ids \in BakeBefore, first \in Biomes, biome \in Biomes :
        probe = BakeCall(BakeRegistry(ids, first), biome)

\* _bake_grass_block_sides returns, and returns again
ReturnBake ==
    /\ probe.fn = "bake_grass_block_sides"
    /\ ~probe.done
    /\ probe' = [probe EXCEPT
                   !.done = TRUE,
                   !.once = bake_grass_block_sides(probe.reg, probe.block_id, probe.biome),
                   !.twice = bake_grass_block_sides(
                                 bake_grass_block_sides(probe.reg, probe.block_id,
                                                        probe.biome),
                                 probe.block_id, probe.biome)]
    /\ UNCHANGED <<replay, worldVars, pc, target_tick, ev_idx, call, handed, last>>
(***************************************************************************)
(* get_biome_color.  Temperatures and downfalls are counted in hundredths, *)
(* their products in ten-thousandths.  The code computes in binary         *)
(* floating point and truncates with int(): the float is within rounding   *)
(* error of the exact value, so int() gives the floor of the exact value,  *)
(* or one less where the exact value is a whole number that the float      *)
(* falls just short of (int(255 * (1.0 - 0.8)) is 50).  Operands 0.0 and   *)
(* 1.0 are exact.                                                            *)
(***************************************************************************)
\* BIOME_CLIMATE.get(biome, (0.8, 0.4)) as <<temperature, downfall>>
BIOME_CLIMATE(biome) ==
    CASE biome \in {"minecraft:ocean", "minecraft:river", "minecraft:warm_ocean",
                    "minecraft:lukewarm_ocean", "minecraft:cold_ocean",
                    "minecraft:deep_ocean"} -> <<50, 50>>
      [] biome \in {PLAINS, "minecraft:beach", "minecraft:sunflower_plains"} -> <<80, 40>>
      [] biome \in {DESERT, "minecraft:savanna", "minecraft:savanna_plateau",
                    "minecraft:badlands"} -> <<200, 0>>
      [] biome = "minecraft:mountains" -> <<20, 30>>
      [] biome \in {"minecraft:forest", "minecraft:wooded_hills", "minecraft:dark_forest",
                    "minecraft:flower_forest"} -> <<70, 80>>
      [] biome = "minecraft:taiga" -> <<25, 80>>
      [] biome = "minecraft:swamp" -> <<80, 90>>
      [] biome \in {"minecraft:frozen_ocean", "minecraft:frozen_river",
                    "minecraft:snowy_tundra", "minecraft:snowy_mountains"} -> <<0, 50>>
      [] biome = "minecraft:mushroom_fields" -> <<90, 100>>
      [] biome = "minecraft:birch_forest" -> <<60, 60>>
      [] biome = "minecraft:snowy_taiga" -> <<-50, 40>>
      [] biome = "minecraft:giant_tree_taiga" -> <<30, 80>>
      [] biome \in {"minecraft:jungle", "minecraft:bamboo_jungle"} -> <<95, 90>>
      [] OTHER -> <<80, 40>>

\* the biomes get_biome_color is called with: the keys of BIOME_CLIMATE and
\* a biome that is not a key
ClimateBiomes ==
    {"minecraft:ocean", PLAINS, DESERT, "minecraft:mountains", "minecraft:forest",
     "minecraft:taiga", "minecraft:swamp", "minecraft:river", "minecraft:frozen_ocean",
     "minecraft:frozen_river", "minecraft:snowy_tundra", "minecraft:snowy_mountains",
     "minecraft:mushroom_fields", "minecraft:beach", "minecraft:wooded_hills",
     "minecraft:birch_forest", "minecraft:dark_forest", "minecraft:snowy_taiga",
     "minecraft:giant_tree_taiga", "minecraft:savanna", "minecraft:savanna_plateau",
     "minecraft:badlands", "minecraft:jungle", "minecraft:bamboo_jungle",
     "minecraft:warm_ocean", "minecraft:lukewarm_ocean", "minecraft:cold_ocean",
     "minecraft:deep_ocean", "minecraft:sunflower_plains", "minecraft:flower_forest",
     "minecraft:the_void"}

\* max(lo, min(hi, v))
clamp(v, lo, hi) == IF v > hi THEN hi ELSE IF v < lo THEN lo ELSE v

\* the values int(255 * (1.0 - x)) can take for x = num / den in [0, 1]
int_255_times_one_minus(num, den) ==
    IF num = 0 THEN {255}
    ELSE IF num = den THEN {0}
    ELSE IF (255 * (den - num)) % den = 0
    THEN {(255 * (den - num)) \div den, (255 * (den - num)) \div den - 1}
    ELSE {(255 * (den - num)) \div den}

\* get_biome_color from `cx = int(255 * (1.0 - temp))` on, for the clamped
\* temperature temp and the adjusted downfall: the coordinates <<cx, cy>>
\* the colormap is sampled at
sample_coords(temp, downfall) ==
    {<<clamp(cx, 0, 255), clamp(cy, 0, 255)>> :
        cx \in int_255_times_one_minus(temp, 100),
        cy \in int_255_times_one_minus(downfall, 10000)}

\* get_biome_color with the downfall not multiplied by the temperature
get_biome_color_plain_downfall(biome) ==
    sample_coords(clamp(BIOME_CLIMATE(biome)[1], 0, 100),
                  clamp(BIOME_CLIMATE(biome)[2], 0, 100) * 100)

\* get_biome_color: `temp = max(0.0, min(1.0, temp))`, `downfall = max(0.0,
\* min(1.0, downfall)) * temp`, then the coordinates
get_biome_color(biome) ==
    sample_coords(clamp(BIOME_CLIMATE(biome)[1], 0, 100),
                  clamp(BIOME_CLIMATE(biome)[2], 0, 100)
                      * clamp(BIOME_CLIMATE(biome)[1], 0, 100))

\* the call get_biome_color(biome, colormap_surf)
ColorCall(biome) ==
    [fn |-> "get_biome_color", done |-> FALSE, biome |-> biome, out |-> <<0, 0>>]

CallsColor == \E biome \in ClimateBiomes : probe = ColorCall(biome)

\* get_biome_color samples the colormap
ReturnColor ==
    /\ probe.fn = "get_biome_color"
    /\ ~probe.done
    /\ \E c \in get_biome_color(probe.biome) :
           probe' = [probe EXCEPT !.done = TRUE, !.out = c]
    /\ UNCHANGED <<replay, worldVars, pc, target_tick, ev_idx, call, handed, last>>
\* the number of variants of the blockstates _match_blockstate_variant is
\* called with
MaxVariants == 3

\* variant keys and property strings of the calls: no property, one, two
MatchStrings ==
    {"", "facing=east", "facing=south", "half=top", "facing=south,half=top",
     "facing=east,half=bottom"}

\* the `variants` dict of a blockstate with the variant keys ks, in
\* declaration order; variant i names the model "variant i"
VariantsOf(ks) ==
    [i \in 1..Len(ks) |->
        <<ks[i], [model |-> "variant " \o ToString(i), x |-> 0, y |-> 0]>>]

\* the call _match_blockstate_variant(blockstate, properties)
MatchCall(ks, properties) ==
    [fn |-> "match_blockstate_variant", done |-> FALSE, variants |-> VariantsOf(ks),
     properties |-> properties, out |-> NoVariant]

\* some call is made: the keys of a dict are distinct
CallsMatch ==
    \E n \in 0..MaxVariants :
        \E ks \in [1..n -> MatchStrings], properties \in MatchStrings :
            /\ \A i, j \in 1..n : ks[i] = ks[j] => i = j
            /\ probe = MatchCall(ks, properties)

\* _match_blockstate_variant returns
ReturnMatch ==
    /\ probe.fn = "match_blockstate_variant"
    /\ ~probe.done
    /\ probe' = [probe EXCEPT
                   !.done = TRUE,
                   !.out = match_blockstate_variant(probe.variants,
                                                    ParseProperties(probe.properties))]
    /\ UNCHANGED <<replay, worldVars, pc, target_tick, ev_idx, call, handed, last>>

(***************************************************************************)
(* The resolution of texture variables in _load_model_json.  The table     *)
(* `textures` is the sequence of its <<key, value>> pairs in the order of  *)
(* the dict; a value is <<"#", name>> for the string '#' + name and        *)
(* <<"", path>> for a string that does not start with '#'.                 *)
(***************************************************************************)
\* `iterations < 10`
MaxPasses == 10
\* the longest chain of references in a table of the calls
MaxChain == 12

\* val.startswith('#') and val[1:]
IsRef(val) == val[1] = "#"
RefKey(val) == val[2]

\* `k in textures`, `textures[k]` and `textures[k] = v`
HasKey(textures, k) == \E i \in 1..Len(textures) : textures[i][1] = k
ValueOf(textures, k) == textures[CHOOSE i \in 1..Len(textures) : textures[i][1] = k][2]
SetValue(textures, k, v) ==
    [i \in 1..Len(textures) |-> IF textures[i][1] = k THEN <<k, v>> ELSE textures[i]]

\* the body of `for key, val in list(textures.items())` for one item, on
\* st = <<textures, resolved>>
resolve_item(st, item) ==
    IF /\ IsRef(item[2])
       /\ HasKey(st[1], RefKey(item[2]))
       /\ ~IsRef(ValueOf(st[1], RefKey(item[2])))
    THEN <<SetValue(st[1], item[1], ValueOf(st[1], RefKey(item[2]))), TRUE>>
    ELSE st

\* the for loop over the items the table had when the pass began
RECURSIVE resolve_items(_, _)
resolve_items(st, items) ==
    IF items = <<>> THEN st
    ELSE CHOOSE out \in {resolve_items(s2, Tail(items)) :
                             s2 \in {resolve_item(st, Head(items))}} : TRUE

\* `while resolved and iterations < 10`
RECURSIVE resolve_passes(_, _, _)
resolve_passes(textures, iterations, resolved) ==
    IF resolved /\ iterations < MaxPasses
    THEN CHOOSE out \in {resolve_passes(st[1], iterations + 1, st[2]) :
                             st \in {resolve_items(<<textures, FALSE>>, textures)}} : TRUE
    ELSE [textures |-> textures, iterations |-> iterations]

\* the resolution that makes one pass
resolve_texture_variables_in_one_pass(textures) ==
    resolve_passes(textures, MaxPasses - 1, TRUE)

\* _load_model_json from `textures = data.get('textures', {})` to the end
\* of the while loop: the table afterwards and the passes made
resolve_texture_variables(textures) == resolve_passes(textures, 0, TRUE)

\* the tables of the calls: every table of at most 3 of the keys a, b, c in
\* every order, each value a path or a reference to a, b, c or the
\* undefined d; and the chains k1 -> #k2 -> ... -> kn = path, first key
\* first and last key first
TableKeys == {"a", "b", "c"}
TableValues == {<<"", "block/stone">>, <<"#", "a">>, <<"#", "b">>, <<"#", "c">>,
                <<"#", "d">>}
ChainKey(i) == "k" \o ToString(i)
ChainUp(n) ==
    [i \in 1..n |-> <<ChainKey(i), IF i = n THEN <<"", "block/stone">>
                                   ELSE <<"#", ChainKey(i + 1)>> >>]
ChainDown(n) == [i \in 1..n |-> ChainUp(n)[n + 1 - i]]

ResolveCall(textures) ==
    [fn |-> "resolve_texture_variables", done |-> FALSE, textures |-> textures,
     out |-> [textures |-> <<>>, iterations |-> 0]]

CallsResolve ==
    \/ \E n \in 0..3 :
           \E ks \in [1..n -> TableKeys], vs \in [1..n -> TableValues] :
               /\ \A i, j \in 1..n : ks[i] = ks[j] => i = j
               /\ probe = ResolveCall([i \in 1..n |-> <<ks[i], vs[i]>>])
    \/ \E n \in 1..MaxChain :
           probe = ResolveCall(ChainUp(n)) \/ probe = ResolveCall(ChainDown(n))

\* the while loop of _load_model_json ends
ReturnResolve ==
    /\ probe.fn = "resolve_texture_variables"
    /\ ~probe.done
    /\ probe' = [probe EXCEPT !.done = TRUE,
                              !.out = resolve_texture_variables(probe.textures)]
    /\ UNCHANGED <<replay, worldVars, pc, target_tick, ev_idx, call, handed, last>>

(***************************************************************************)
(* Calls of _rotate_elements on element lists: one box with corners on a   *)
(* grid of sixteenths and any set of faces, and the two boxes of a stair.  *)
(***************************************************************************)
BoxCoords == {0, 6, 16}
FaceNameSeq == <<"up", "down", "north", "south", "west", "east">>
RotationsX == {0, 180}
RotationsY == {0, 90, 180, 270}

\* the faces dict of an element with the face names fs, face data the
\* position of the name
FacesOf(fs) ==
    SelectSeq([i \in 1..6 |-> <<FaceNameSeq[i], i, FALSE>>], LAMBDA fc : fc[1] \in fs)

RotateCall(elements, rot_x, rot_y) ==
    [fn |-> "rotate_elements", done |-> FALSE, elements |-> elements,
     rot_x |-> rot_x, rot_y |-> rot_y, out |-> <<>>]

CallsRotate ==
    \E rot_x \in RotationsX, rot_y \in RotationsY :
        \/ \E f \in BoxCoords \X BoxCoords \X BoxCoords,
              t \in BoxCoords \X BoxCoords \X BoxCoords,
              fs \in SUBSET {"up", "down", "north", "south", "west", "east"} :
               /\ \A a \in 1..3 : f[a] <= t[a]
               /\ probe = RotateCall(<< [from |-> f, to |-> t, faces |-> FacesOf(fs)] >>,
                                     rot_x, rot_y)
        \/ probe = RotateCall(
               << [from |-> <<0, 0, 0>>, to |-> <<16, 8, 16>>,
                   faces |-> FacesOf({"up", "down", "north", "south", "west", "east"})],
                  [from |-> <<8, 8, 0>>, to |-> <<16, 16, 16>>,
                   faces |-> FacesOf({"up", "north", "south", "west", "east"})] >>,
               rot_x, rot_y)

\* _rotate_elements returns
ReturnRotate ==
    /\ probe.fn = "rotate_elements"
    /\ ~probe.done
    /\ probe' = [probe EXCEPT !.done = TRUE,
                              !.out = rotate_elements(probe.elements, probe.rot_x,
                                                      probe.rot_y)]
    /\ UNCHANGED <<replay, worldVars, pc, target_tick, ev_idx, call, handed, last>>
\* the world of an empty replay, idle
QuietWorld ==
    /\ replay = OpenReplay
    /\ Is(NewWorld({}, <<>>))
    /\ InitControl(<<>>)

InitPure ==
    /\ QuietWorld
    /\ \/ CallsAO
       \/ CallsMesh
       \/ CallsBake
       \/ CallsColor
       \/ CallsMatch
       \/ CallsResolve
       \/ CallsRotate

NextPure ==
    \/ ReturnAO
    \/ ReturnMesh
    \/ ReturnBake
    \/ ReturnColor
    \/ ReturnMatch
    \/ ReturnResolve
    \/ ReturnRotate

SpecPure == InitPure /\ [][NextPure]_vars

(* C12: the count _compute_ao_corner returns is in 0..3 for every block    *)
(* position, face and corner, and it does not exceed the count returned    *)
(* for the same block, face and corner with a larger solid set: for every  *)
(* S that is a subset of the solid set S' of the call, the count with S is *)
(* at most the count with S'.                                              *)
C12_AOMonotone ==
    probe.fn = "compute_ao_corner" /\ probe.done =>
        /\ probe.out \in 0..3
        /\ \A S \in SUBSET probe.solid :
               compute_ao_corner(S, probe.b, probe.face_id, probe.corner)
                   <= probe.out

\* a corner whose three samples are all solid, so that smaller sets give
\* each of the counts 0..3
C12_Witness ==
    /\ probe.fn = "compute_ao_corner"
    /\ probe.done
    /\ probe.out = 3
    /\ \E S \in SUBSET probe.solid :
           compute_ao_corner(S, probe.b, probe.face_id, probe.corner) = 1

\* the quads of a buffer that belong to the block at p
QuadsOf(buf, p) == {i \in 1..Len(buf) : buf[i].pos = p}

(* C13: for every input to build_chunk_mesh, a block whose alpha is below  *)
(* 1 has no vertex in the opaque buffer, whatever its render type (Cube,   *)
(* Cross or Elements), and every vertex of the opaque buffer has alpha 1.  *)
C13_TransparentOrdering ==
    probe.fn = "build_chunk_mesh" /\ probe.done =>
        /\ \A p \in DOMAIN probe.blocks :
               probe.alpha[probe.blocks[p]] < 10 => QuadsOf(probe.out.opaque, p) = {}
        /\ \A i \in 1..Len(probe.out.opaque) : probe.out.opaque[i].alpha = 10

(***************************************************************************)
(* Calls of the BlockRegistry.  In SpecRegistry a registry is constructed  *)
(* and then called MaxCalls times at most with block ids, properties,      *)
(* biomes and texture requests in any order; probe holds the last call,    *)
(* what it returned and the number of calls made.                          *)
(***************************************************************************)
\* the number of calls made on a registry
MaxCalls == 3

RegistryBlocks == {STONE, STAIRS, GRASS_BLOCK}

\* <<block id, properties>> of the calls of register_block_variant: a block
\* that is not Elements, rotations Y = 0, 90, 180, 270 and X = 180, a
\* properties string no variant matches, a variant whose model has a face
\* without a texture file, a variant whose model file does not exist, and a
\* variant whose model is one full cube
RegistryVariants ==
    {<<STONE, "facing=east">>, <<STAIRS, "facing=east">>, <<STAIRS, "facing=south">>,
     <<STAIRS, "facing=west">>, <<STAIRS, "facing=north">>,
     <<STAIRS, "facing=south,half=top">>, <<STAIRS, "half=top">>,
     <<SLAB, "type=bottom">>, <<SLAB, "type=top">>, <<SLAB, "type=double">>}

\* texture names requested: a file that exists, one that does not, one that
\* exists and cannot be loaded, one found under its basename, and a name
\* that is also a key the registry forms itself
TextureNames == {"stone", "nosuch", "corrupt", "item/stone", baked_key(PLAINS)}

\* <<uv, rotation>> of the crops requested: a part, the same part mirrored,
\* and the whole texture rotated
Crops == {<<<<0, 8, 16, 16>>, 0>>, <<<<16, 16, 0, 8>>, 0>>, <<<<0, 0, 16, 16>>, 90>>}

\* <<tex_idx, rotation>> of the rotated copies requested
Rotations == {<<0, 90>>, <<1, 0>>, <<1, 90>>}

otherVars == <<replay, blocks, solid, liquid, chunks, any_dirty, current_tick,
               cache, gpu, pc, target_tick, ev_idx, call, handed, last>>

NoRegistryCall ==
    [fn |-> "", done |-> TRUE, calls |-> 0, block_id |-> "", properties |-> "",
     biome |-> "", tex_name |-> "", uv |-> <<>>, rotation |-> 0, tex_idx |-> 0,
     out |-> 0, key |-> NoKey]

\* a call of the registry that leaves registry r and returns index out
Called(c, r, out) ==
    /\ probe.calls < MaxCalls
    /\ registry' = r
    /\ probe' = [c EXCEPT !.calls = probe.calls + 1, !.out = out]
    /\ UNCHANGED otherVars

\* register_block(block_id, biome)
RegisterBlock(block_id, biome) ==
    Called([NoRegistryCall EXCEPT !.fn = "register_block", !.block_id = block_id,
                                  !.biome = biome, !.key = PlainKey(block_id)],
           register_block(registry, PlainKey(block_id), biome), 0)

\* register_block_variant(block_id, properties_str, biome), given what it
\* returns rv = <<registry afterwards, key>>
VariantRegistered(block_id, properties, biome, rv) ==
    Called([NoRegistryCall EXCEPT !.fn = "register_block_variant",
                                  !.block_id = block_id, !.properties = properties,
                                  !.biome = biome, !.key = rv[2]],
           rv[1], 0)

RegisterBlockVariant(block_id, properties, biome) ==
    VariantRegistered(block_id, properties, biome,
                      register_block_variant(registry, block_id, properties, biome))

\* a texture request, given what it returns ld = <<registry afterwards, index>>
Requested(c, ld) == Called(c, ld[1], ld[2])

\* _get_or_load_texture(tex_name)
GetOrLoadTexture(tex_name) ==
    Requested([NoRegistryCall EXCEPT !.fn = "get_or_load_texture",
                                     !.tex_name = tex_name],
              get_or_load_texture(registry, tex_name))

\* _get_uv_cropped_texture(tex_name, uv, rotation)
GetUvCroppedTexture(tex_name, uv, rotation) ==
    Requested([NoRegistryCall EXCEPT !.fn = "get_uv_cropped_texture",
                                     !.tex_name = tex_name, !.uv = uv,
                                     !.rotation = rotation],
              get_uv_cropped_texture(registry, tex_name, uv, rotation))

\* _get_rotated_texture(tex_idx, rotation) of a layer that exists
GetRotatedTexture(tex_idx, rotation) ==
    /\ tex_idx < num_textures(registry)
    /\ Requested([NoRegistryCall EXCEPT !.fn = "get_rotated_texture",
                                        !.tex_idx = tex_idx, !.rotation = rotation],
                 get_rotated_texture(registry, tex_idx, rotation))

InitRegistry ==
    /\ QuietWorld
    /\ probe = NoRegistryCall

NextRegistry ==
    \/ \E block_id \in RegistryBlocks, biome \in Biomes : RegisterBlock(block_id, biome)
    \/ \E v \in RegistryVariants : RegisterBlockVariant(v[1], v[2], PLAINS)
    \/ \E tex_name \in TextureNames : GetOrLoadTexture(tex_name)
    \/ \E c \in Crops : GetUvCroppedTexture("oak_planks", c[1], c[2])
    \/ \E r \in Rotations : GetRotatedTexture(r[1], r[2])

SpecRegistry == InitRegistry /\ [][NextRegistry]_vars

\* C14: a call of register_block with a block id that is registered, with
\* the same or another biome, leaves every descriptor and the texture atlas
\* as they were, and no call of the registry changes or removes the
\* descriptor stored under a key that is registered.
C14_IdempotentRegistration ==
    [][/\ (probe'.fn = "register_block" /\ probe'.key \in DOMAIN registry.desc)
           => registry' = registry
       /\ \A k \in DOMAIN registry.desc :
              /\ k \in DOMAIN registry'.desc
              /\ registry'.desc[k] = registry.desc[k]]_vars

\* the grass block, registered and baked for the plains, has been
\* registered again for the desert
C14_Witness ==
    /\ probe.fn = "register_block"
    /\ probe.key = PlainKey(GRASS_BLOCK)
    /\ probe.biome = DESERT
    /\ probe.calls >= 2
    /\ baked_key(PLAINS) \in DOMAIN registry.tex_name_to_index
    /\ baked_key(DESERT) \notin DOMAIN registry.tex_name_to_index
    /\ registry.desc[PlainKey(GRASS_BLOCK)].face_textures[3]
           = registry.tex_name_to_index[baked_key(PLAINS)]
    /\ registry.desc[PlainKey(GRASS_BLOCK)].tint_type = TINT_GRASS

\* the texture indices a descriptor holds: its six face textures and the
\* textures of the faces of its elements
IndicesOf(d) ==
    {d.face_textures[i] : i \in 1..6}
        \cup UNION {{d.elements[e].faces[f][2] : f \in 1..Len(d.elements[e].faces)} :
                    e \in 1..Len(d.elements)}

\* C15: a texture key keeps the layer index it was given, the number of
\* layers never decreases, layer 0 is always the missing placeholder, and
\* every index in the name-to-index map or in a descriptor is below the
\* number of layers.
C15_TextureLayerStability ==
    /\ [](/\ registry.tex_surfaces[1] = NewRegistry.tex_surfaces[1]
          /\ \A k \in DOMAIN registry.tex_name_to_index :
                 registry.tex_name_to_index[k] < num_textures(registry)
          /\ \A k \in DOMAIN registry.desc :
                 \A i \in IndicesOf(registry.desc[k]) : i < num_textures(registry))
    /\ [][/\ num_textures(registry') >= num_textures(registry)
          /\ \A k \in DOMAIN registry.tex_name_to_index :
                 /\ k \in DOMAIN registry'.tex_name_to_index
                 /\ registry'.tex_name_to_index[k] = registry.tex_name_to_index[k]]_vars

\* the variant of the blockstate that the last call of
\* register_block_variant matched
MatchedBy(c) ==
    match_blockstate_variant(BlockstateOf(c.block_id), ParseProperties(c.properties))

\* the elements of the model a variant names, unrotated, with the texture
\* indices registry reg gives their faces
SourceElements(reg, variant_info) ==
    extract_elements(reg, ModelNamed(variant_info.model).elements)[2]

\* the step registers a new variant: register_block_variant stored a key
\* that had no descriptor
NewVariantStep ==
    /\ probe'.fn = "register_block_variant"
    /\ probe'.key \notin DOMAIN registry.desc
    /\ probe'.key \in DOMAIN registry'.desc
    /\ probe'.key # PlainKey(probe'.block_id)

\* the side label a quarter turn table gives: north -> east -> south ->
\* west -> north, once per 90 degrees
SideOrder == <<"north", "east", "south", "west">>
SideIndex(face_name) == CHOOSE i \in 1..4 : SideOrder[i] = face_name
TurnedLabel(rot_y, face_name) ==
    SideOrder[((SideIndex(face_name) - 1 + rot_y \div 90) % 4) + 1]

\* face i of element e: the side faces of the source are stored under the
\* label of the Y table
SideRelabelled(src, stored, rot_y) ==
    \A e \in 1..Len(src) : \A i \in 1..Len(src[e].faces) :
        src[e].faces[i][1] \in {"north", "east", "south", "west"}
            => stored[e].faces[i][1] = TurnedLabel(rot_y, src[e].faces[i][1])

\* face i of element e: the up and down faces of the source with a texture
\* index in skip excepted, the stored index differs from the source index
UpDownDiffer(src, stored, skip) ==
    \A e \in 1..Len(src) : \A i \in 1..Len(src[e].faces) :
        (src[e].faces[i][1] \in {"up", "down"} /\ src[e].faces[i][2] \notin skip)
            => stored[e].faces[i][2] # src[e].faces[i][2]

\* the claim as stated, for the variant v with source elements src stored
\* as the elements stored
RotationAsClaimed(v, src, stored) ==
    v.y \in {90, 180, 270} => SideRelabelled(src, stored, v.y) /\ UpDownDiffer(src, stored, {})

\* the same of the variant v registered in registry reg under key
RegisteredAsClaimed(v, reg, key) ==
    RotationAsClaimed(v, SourceElements(reg, v), reg.desc[key].elements)

\* the claim for X = 0 and for up and down faces that have a texture layer
RotationAmended(v, src, stored) ==
    v.y \in {90, 180, 270} =>
        /\ v.x = 0 => SideRelabelled(src, stored, v.y)
        /\ UpDownDiffer(src, stored, {0})

\* the same of the variant v registered in registry reg under key
RegisteredAmended(v, reg, key) ==
    RotationAmended(v, SourceElements(reg, v), reg.desc[key].elements)

C18_GrassBakingIdempotent ==
    probe.fn = "bake_grass_block_sides" /\ probe.done =>
        /\ probe.twice.tex_name_to_index[baked_key(probe.biome)]
               = probe.once.tex_name_to_index[baked_key(probe.biome)]
        /\ probe.twice.desc[PlainKey(GRASS_BLOCK)].face_textures
               = probe.once.desc[PlainKey(GRASS_BLOCK)].face_textures
        /\ probe.twice.tex_surfaces[probe.twice.tex_name_to_index[baked_key(probe.biome)] + 1]
               = probe.once.tex_surfaces[probe.once.tex_name_to_index[baked_key(probe.biome)] + 1]
        /\ num_textures(probe.twice) = num_textures(probe.once)
        /\ probe.twice = probe.once

\* the sides were baked twice for a biome the registry had no baked layer
\* of: the first bake added a layer, which the sides of the block now use
C18_Witness ==
    /\ probe.fn = "bake_grass_block_sides"
    /\ probe.done
    /\ baked_key(probe.biome) \notin DOMAIN probe.reg.tex_name_to_index
    /\ num_textures(probe.once) = num_textures(probe.reg) + 1
    /\ probe.twice.desc[PlainKey(GRASS_BLOCK)].face_textures[3]
           = num_textures(probe.reg)

\* the climate of the biome of the call: temperature and downfall in
\* hundredths, and both clamped to 0..100
CallTemp == BIOME_CLIMATE(probe.biome)[1]
CallDownfall == BIOME_CLIMATE(probe.biome)[2]
Clamped(v) == IF v < 0 THEN 0 ELSE IF v > 100 THEN 100 ELSE v

\* C19: get_biome_color samples the colormap at coordinates in 0..255 for
\* every biome of the table and for an unknown biome; a temperature of 1 or
\* more gives cx = 0, a temperature of 0 or less gives cx = 255 and
\* cy = 255, and cy is 255 * (1 - downfall * temperature), both clamped to
\* [0, 1], truncated (to the whole number below it, or to the one before
\* where the float falls short of a whole number).
C19_ColormapClamp ==
    probe.fn = "get_biome_color" /\ probe.done =>
        /\ probe.out[1] \in 0..255
        /\ probe.out[2] \in 0..255
        /\ CallTemp >= 100 => probe.out[1] = 0
        /\ CallTemp <= 0 => probe.out[1] = 255 /\ probe.out[2] = 255
        /\ probe.out[2] * 10000
               <= 255 * (10000 - Clamped(CallDownfall) * Clamped(CallTemp))
        /\ 255 * (10000 - Clamped(CallDownfall) * Clamped(CallTemp))
               < (probe.out[2] + 2) * 10000
        /\ (255 * (10000 - Clamped(CallDownfall) * Clamped(CallTemp))) % 10000 # 0
               => 255 * (10000 - Clamped(CallDownfall) * Clamped(CallTemp))
                      < (probe.out[2] + 1) * 10000

\* the colormap was sampled for a temperature above 1 (the desert, 2.0)
C19_Witness ==
    /\ probe.fn = "get_biome_color"
    /\ probe.done
    /\ CallTemp > 100
    /\ probe.out = <<0, 255>>

\* the key=value pairs a string lists
PairsOf(s) == {ParseProperties(s)[i] : i \in 1..Len(ParseProperties(s))}

\* the variants of the call all of whose listed pairs are among the pairs
\* of the given properties
Matching == {i \in 1..Len(probe.variants) :
                PairsOf(probe.variants[i][1]) \subseteq PairsOf(probe.properties)}

\* C20: _match_blockstate_variant returns the first variant in declaration
\* order all of whose listed key=value pairs are among the given
\* properties (so a variant listing nothing matches any input, one listing
\* a property the input lacks or has with another value does not match,
\* and a later variant is never preferred), and None when there is none.
C20_FirstMatchWins ==
    probe.fn = "match_blockstate_variant" /\ probe.done =>
        /\ Matching = {} => probe.out = NoVariant
        /\ Matching # {} =>
               \E i \in Matching :
                   /\ \A j \in Matching : i <= j
                   /\ probe.out = probe.variants[i][2]

\* two variants match, the second listing more properties than the first,
\* after a variant that lists a property with another value: the first
\* match was returned
C20_Witness ==
    /\ probe.fn = "match_blockstate_variant"
    /\ probe.done
    /\ probe.properties = "facing=south,half=top"
    /\ Len(probe.variants) = 3
    /\ probe.variants[1][1] = "facing=east"
    /\ probe.variants[2][1] = "half=top"
    /\ probe.variants[3][1] = "facing=south,half=top"
    /\ Matching = {2, 3}
    /\ probe.out.model = "variant 2"

(***************************************************************************)
(* A session (main.py, VoxelEngine.__init__): the registry is built and    *)
(* every block id and every variant of the replay is registered, the world *)
(* is constructed on that registry and processes tick 0, and the texture   *)
(* array is built from the registry; then the replay is played.  probe     *)
(* holds the call of build_texture_array and the array it returned.        *)
(***************************************************************************)
\* the events of the replay of a session: a cube block, an element block
\* with properties that select a rotated variant, and air
SessionPositions == {<<0, 0, 0>>}
SessionBlocks == {<<STONE, "">>, <<STAIRS, "facing=south">>, <<AIR, "">>}
SessionEvents == EventsOver(SessionPositions, SessionBlocks)

\* the event lists of k consecutive ticks holding at most n events in all
RECURSIVE SessionTickLists(_, _)
SessionTickLists(k, n) ==
    IF k = 0 THEN {<<>>}
    ELSE UNION {{<<l>> \o rest : rest \in SessionTickLists(k - 1, n - Len(l))} :
                    l \in EventLists(SessionEvents, n)}

SessionReplays == {[max_tick |-> MaxTick, block_events_by_tick |-> s] :
                      s \in SessionTickLists(MaxTick + 1, MaxEvents)}

\* ReplayLoader.get_all_unique_block_variants
get_all_unique_block_variants(r) ==
    {v \in {<<r.block_events_by_tick[q[1]][q[2]].blockId,
              r.block_events_by_tick[q[1]][q[2]].blockStateProperties>> :
                q \in {q \in (DOMAIN r.block_events_by_tick) \X (1..MaxEvents + 1) :
                         q[2] <= Len(r.block_events_by_tick[q[1]])}} :
        v[1] # "" /\ v[1] # AIR /\ v[2] # ""}

\* the orders a `for` loop may take the members of a set in
Orders(S) ==
    {s \in [1..Cardinality(S) -> S] : \A i, j \in DOMAIN s : s[i] = s[j] => i = j}

\* `for bid in self.replay.get_all_unique_block_ids():
\* self.block_registry.register_block(bid, biome=biome)`
RECURSIVE pre_register_blocks(_, _, _)
pre_register_blocks(reg, ids, biome) ==
    IF ids = <<>> THEN reg
    ELSE pre_register_blocks(register_block(reg, PlainKey(Head(ids)), biome),
                             Tail(ids), biome)

\* a startup that registers no variant before the texture array is built
pre_register_no_variants(reg, variants, biome) == reg

\* `for bid, props in variants:
\* self.block_registry.register_block_variant(bid, props, biome)`
RECURSIVE pre_register_variants(_, _, _)
pre_register_variants(reg, variants, biome) ==
    IF variants = <<>> THEN reg
    ELSE pre_register_variants(
             register_block_variant(reg, Head(variants)[1], Head(variants)[2], biome)[1],
             Tail(variants), biome)

\* `for bid in replay.get_all_unique_block_ids(): self._register_block(bid)`
\* of ReplayWorld.__init__
RECURSIVE world_register_blocks(_, _)
world_register_blocks(w, ids) ==
    IF ids = <<>> THEN w
    ELSE world_register_blocks(world_register_block(w, PlainKey(Head(ids))), Tail(ids))

\* ReplayWorld.__init__ with the registry it is given
ReplayWorld(block_registry, ids, events0) ==
    process_events(
        world_register_blocks([RegisteredWorld({}) EXCEPT !.registry = block_registry],
                              ids),
        events0)

\* BlockRegistry.build_texture_array: the number of layers and the layers,
\* each flipped, in order
build_texture_array(reg) ==
    <<Len(reg.tex_surfaces),
      [i \in 1..Len(reg.tex_surfaces) |-> "flip(" \o reg.tex_surfaces[i] \o ")"]>>

\* Textures.__init__: the texture array is built from the registry of the
\* world w that was constructed
TexturesBuilt(w) ==
    /\ Is(w)
    /\ probe = [fn |-> "build_texture_array", done |-> TRUE,
                out |-> build_texture_array(w.registry)]

\* VoxelEngine.__init__ from `self.block_registry = BlockRegistry()` to
\* `self.textures = Textures(...)`, the loops taking the ids and the
\* variants in the orders given
VoxelEngine(r, ids, variants) ==
    \E registered \in {pre_register_blocks(NewRegistry, ids, PLAINS)} :
        \E block_registry \in {pre_register_variants(registered, variants, PLAINS)} :
            \E replay_world \in {ReplayWorld(block_registry, ids,
                                             get_events_for_tick(r, 0))} :
                TexturesBuilt(replay_world)

InitSession ==
    /\ replay \in SessionReplays
    /\ \E ids \in Orders(get_all_unique_block_ids(replay)),
          variants \in Orders(get_all_unique_block_variants(replay)) :
           VoxelEngine(replay, ids, variants)
    /\ InitControl(get_events_for_tick(replay, 0))

SpecSession == InitSession /\ [][NextReplay]_vars

\* C16: once the texture array is built no operation of the playback adds a
\* texture layer or changes the content of one (the array built from the
\* registry in any later state is the array built at startup), and the
\* array is built once: no operation of the playback builds it again.
C16_AtlasFreeze ==
    /\ [](/\ probe.fn = "build_texture_array"
          /\ build_texture_array(registry) = probe.out
          /\ num_textures(registry) = probe.out[1])
    /\ [][probe' = probe]_vars

\* an event of a later tick has placed the rotated stairs variant, whose
\* rotated texture layer is in the array
C16_Witness ==
    /\ last.op = "event"
    /\ current_tick >= 1
    /\ last.ev.blockStateProperties = "facing=south"
    /\ get_events_for_tick(replay, 0) = <<>>
    /\ <<0, 0, 0>> \in DOMAIN blocks
    /\ blocks[<<0, 0, 0>>] = VariantKey(STAIRS, "facing=south")
    /\ VariantKey(STAIRS, "facing=south") \in DOMAIN registry.desc
    /\ rot_key(registry.tex_name_to_index["oak_planks"], 90)
           \in DOMAIN registry.tex_name_to_index
    /\ probe.out[1] = num_textures(registry)

(***************************************************************************)
(* Fallback of register_block_variant.                                     *)
(***************************************************************************)
\* the variant the blockstate of block_id declares for a properties string
DeclaredVariant(block_id, properties) ==
    match_blockstate_variant(BlockstateOf(block_id), ParseProperties(properties))

\* the model has element geometry: an element that is not the full cube
HasGeometry(m) ==
    \E i \in 1..Len(m.elements) :
        ~(m.elements[i].from = <<0, 0, 0>> /\ m.elements[i].to = <<16, 16, 16>>)

\* no variant can be made of block_id for the properties: the block is not
\* Elements, its blockstate is missing, no variant matches, or the model of
\* the variant is missing or has no element geometry
FallsBack(reg, block_id, properties) ==
    \/ reg.desc[PlainKey(block_id)].render_type # RENDER_ELEMENTS
    \/ BlockstateOf(block_id) = <<>>
    \/ DeclaredVariant(block_id, properties) = NoVariant
    \/ ~ModelNamed(DeclaredVariant(block_id, properties).model).found
    \/ ~HasGeometry(ModelNamed(DeclaredVariant(block_id, properties).model))

\* what the claim says of a call register_block_variant(block_id,
\* properties, biome) that led from registry reg to reg2 and returned key
VariantAsClaimed(reg, reg2, block_id, properties, biome, key) ==
    /\ IF FallsBack(reg2, block_id, properties)
       THEN /\ key = PlainKey(block_id)
            /\ VariantKey(block_id, properties) \in DOMAIN reg2.desc
                   => VariantKey(block_id, properties) \in DOMAIN reg.desc
       ELSE /\ key = VariantKey(block_id, properties)
            /\ key \in DOMAIN reg2.desc
            /\ reg2.desc[key].render_type = RENDER_ELEMENTS
            /\ ~reg2.desc[key].is_full
    /\ register_block_variant(reg2, block_id, properties, biome) = <<reg2, key>>

\* C21: register_block_variant returns the plain block id and creates no
\* entry under the variant key when the block is not Elements, the
\* blockstate is missing, no variant matches, or the variant's model is
\* missing or has no element geometry; otherwise it returns the variant key,
\* whose descriptor is Elements and not full; and the same call made again
\* returns the same key and leaves the registry as it is.
C21_VariantFallback ==
    [][probe'.fn = "register_block_variant"
          => VariantAsClaimed(registry, registry', probe'.block_id,
                              probe'.properties, probe'.biome, probe'.key)]_vars

\* a slab variant has been made, and then the variant of the slab whose
\* model is one full cube was asked for and the plain id came back
C21_Witness ==
    /\ probe.fn = "register_block_variant"
    /\ probe.block_id = SLAB
    /\ probe.properties = "type=double"
    /\ probe.key = PlainKey(SLAB)
    /\ VariantKey(SLAB, "type=double") \notin DOMAIN registry.desc
    /\ VariantKey(SLAB, "type=bottom") \in DOMAIN registry.desc
    /\ registry.desc[VariantKey(SLAB, "type=bottom")].render_type = RENDER_ELEMENTS
    /\ ~registry.desc[VariantKey(SLAB, "type=bottom")].is_full

(***************************************************************************)
(* Texture requests that cannot be served.                                 *)
(***************************************************************************)
\* the request for tex_name cannot be served from a file: there is none
\* under the name or its basename, or the file does not load
CannotLoad(tex_name) ==
    TextureFile(tex_name) = "" \/ ~TextureLoads(TextureFile(tex_name))

\* C22: _get_or_load_texture returns an index for every name; for a name
\* whose file is missing or does not load it returns 0, maps the name to 0
\* and leaves the layers as they are; for a name that has an index (0 of an
\* earlier failure included) it returns that index and changes nothing.
C22_TextureLoadNeverRaises ==
    [][probe'.fn = "get_or_load_texture"
          => /\ probe'.tex_name \in DOMAIN registry'.tex_name_to_index
             /\ registry'.tex_name_to_index[probe'.tex_name] = probe'.out
             /\ registry'.desc = registry.desc
             /\ IF probe'.tex_name \in DOMAIN registry.tex_name_to_index
                THEN /\ probe'.out = registry.tex_name_to_index[probe'.tex_name]
                     /\ registry' = registry
                ELSE CannotLoad(probe'.tex_name)
                        => /\ probe'.out = 0
                           /\ registry'.tex_surfaces = registry.tex_surfaces
                           /\ registry'.tex_name_to_index
                                  = Put(registry.tex_name_to_index, probe'.tex_name, 0)]_vars

\* a file has been loaded into a layer, and a file that exists but does not
\* load was requested and then requested again
C22_Witness ==
    /\ probe.fn = "get_or_load_texture"
    /\ probe.tex_name = "corrupt"
    /\ probe.out = 0
    /\ probe.calls = 3
    /\ DOMAIN registry.tex_name_to_index = {"__missing__", "stone", "corrupt"}
    /\ registry.tex_name_to_index["corrupt"] = 0
    /\ registry.tex_name_to_index["stone"] = 1
    /\ num_textures(registry) = 2

(***************************************************************************)
(* VideoPlayer (video_player.py).  A video is the sequence of its frames,  *)
(* frame i at index i + 1, each "ok", "nopts" (it decodes and has no pts)  *)
(* or "bad" (decoding it raises an error of the decoder).  A player is the *)
(* record of _available, the frames of its container, _mapping_ticks,      *)
(* _current_frame, the position of _decoder (the frame the next call of    *)
(* next() decodes; NumFrames and above: the generator is finished) and the *)
(* frame last written to the texture (<<>>: none).  In SpecVideo a player  *)
(* is constructed and seek_to_tick is called with any ticks in any order;  *)
(* probe holds the player, the last call, the path it took, whether the    *)
(* decoder raised an error during it and whether an exception left it.     *)
(***************************************************************************)
\* the frames of the video
NumFrames == 4
\* max_tick of the replay the video accompanies
VideoMaxTick == 6
\* container.seek positions the decoder at the last keyframe at or before
\* the target: every KeyInterval-th frame is one
KeyInterval == 2

Videos == [1..NumFrames -> {"ok", "nopts", "bad"}]

\* frame_to_tick of frame_mapping.jsonl: none, or frame i captured at tick 2 i
FrameMappings == {<<>>, [i \in 1..NumFrames |-> 2 * (i - 1)]}

\* VideoPlayer.__init__ with _reset_decoder
NewVideoPlayer(available, frames, frame_to_tick) ==
    [available |-> available, frames |-> frames, mapping_ticks |-> frame_to_tick,
     max_tick |-> IF VideoMaxTick > 1 THEN VideoMaxTick ELSE 1,
     current_frame |-> -1, decoder |-> 0, uploaded |-> <<>>]

\* VideoPlayer._tick_to_frame
tick_to_frame(vp, tick) ==
    IF vp.mapping_ticks # <<>>
    THEN Max(0, Min(Cardinality({i \in 1..Len(vp.mapping_ticks) :
                                    vp.mapping_ticks[i] <= tick}) - 1,
                    NumFrames - 1))
    ELSE IF NumFrames <= 0 THEN 0
    ELSE Max(0, Min((tick * NumFrames) \div vp.max_tick, NumFrames - 1))

\* VideoPlayer._frame_index of the frame i of the video
frame_index(vp, i) == IF vp.frames[i + 1] = "nopts" THEN -1 ELSE i

\* what a call leaves: the player, whether an exception left the call, and
\* whether the decoder raised an error during it
Outcome(vp, raised, errored) == [player |-> vp, raised |-> raised, errored |-> errored]

\* the sequential path of seek_to_tick from `while self._current_frame <
\* target` on; frame is <<>> for None.  An error of next() that is not
\* StopIteration is not caught: it ends the generator and leaves the call
RECURSIVE decode_forward(_, _, _)
decode_forward(vp, target, frame) ==
    IF vp.current_frame < target
    THEN IF vp.decoder >= NumFrames
         THEN Outcome([vp EXCEPT !.current_frame = target], FALSE, FALSE)
         ELSE IF vp.frames[vp.decoder + 1] = "bad"
         THEN Outcome([vp EXCEPT !.decoder = NumFrames], TRUE, TRUE)
         ELSE decode_forward(
                  [vp EXCEPT !.current_frame = IF frame_index(vp, vp.decoder) < 0
                                               THEN target
                                               ELSE frame_index(vp, vp.decoder),
                             !.decoder = @ + 1],
                  target, <<vp.decoder>>)
    ELSE Outcome(IF frame # <<>> THEN [vp EXCEPT !.uploaded = frame] ELSE vp,
                 FALSE, FALSE)

\* _seek_exact after its loop: the upload of last_frame and the bookkeeping
seek_done(vp, target_frame, last_frame) ==
    Outcome([vp EXCEPT !.uploaded = IF last_frame # <<>> THEN last_frame ELSE @,
                       !.current_frame = target_frame],
            FALSE, FALSE)

\* `for frame in self._decoder` of _seek_exact inside `try ... except
\* Exception`
RECURSIVE decode_until(_, _, _)
decode_until(vp, target_frame, last_frame) ==
    IF vp.decoder >= NumFrames THEN seek_done(vp, target_frame, last_frame)
    ELSE IF vp.frames[vp.decoder + 1] = "bad"
    THEN Outcome([vp EXCEPT !.decoder = NumFrames, !.current_frame = target_frame],
                 FALSE, TRUE)
    ELSE IF frame_index(vp, vp.decoder) >= target_frame
    THEN seek_done([vp EXCEPT !.decoder = @ + 1], target_frame, <<vp.decoder>>)
    ELSE decode_until([vp EXCEPT !.decoder = @ + 1], target_frame, <<vp.decoder>>)

\* VideoPlayer._seek_exact; seek_ok: container.seek returns without an error
seek_exact(vp, target_frame, seek_ok) ==
    IF ~seek_ok
    THEN Outcome([vp EXCEPT !.current_frame = target_frame], FALSE, TRUE)
    ELSE decode_until([vp EXCEPT !.decoder = target_frame - (target_frame % KeyInterval)],
                      target_frame, <<>>)

\* the path seek_to_tick takes to the frame target
seek_path(vp, target) ==
    IF ~vp.available THEN "unavailable"
    ELSE IF target = vp.current_frame THEN "same"
    ELSE IF 0 < target - vp.current_frame /\ target - vp.current_frame <= 3
    THEN "sequential"
    ELSE "exact"

\* VideoPlayer.seek_to_tick from `target = self._tick_to_frame(max(0, tick))` on
seek_to_frame(vp, target, seek_ok) ==
    CASE seek_path(vp, target) = "sequential" -> decode_forward(vp, target, <<>>)
      [] seek_path(vp, target) = "exact" -> seek_exact(vp, target, seek_ok)
      [] OTHER -> Outcome(vp, FALSE, FALSE)

\* VideoPlayer.seek_to_tick
seek_to_tick(vp, tick, seek_ok) ==
    seek_to_frame(vp, tick_to_frame(vp, Max(0, tick)), seek_ok)

VideoCall(fn, tick, target, path, out) ==
    [fn |-> fn, done |-> TRUE, tick |-> tick, target |-> target, path |-> path,
     player |-> out.player, raised |-> out.raised, errored |-> out.errored]

InitVideo ==
    /\ QuietWorld
    /\ \E available \in BOOLEAN, frames \in Videos, frame_to_tick \in FrameMappings :
           probe = VideoCall("VideoPlayer", 0, 0, "",
                             Outcome(NewVideoPlayer(available, frames, frame_to_tick),
                                     FALSE, FALSE))

\* video_player.seek_to_tick(target_tick) of VoxelEngine.update and
\* VoxelEngine._seek_to_tick; an exception that leaves it ends the main loop
SeekToTick(tick, seek_ok) ==
    /\ ~probe.raised
    /\ probe' = VideoCall("seek_to_tick", tick,
                          tick_to_frame(probe.player, Max(0, tick)),
                          seek_path(probe.player, tick_to_frame(probe.player, Max(0, tick))),
                          seek_to_tick(probe.player, tick, seek_ok))
    /\ UNCHANGED <<registry, otherVars>>

NextVideo == \E tick \in -1..VideoMaxTick, seek_ok \in BOOLEAN : SeekToTick(tick, seek_ok)

SpecVideo == InitVideo /\ [][NextVideo]_vars

\* C23: no call of seek_to_tick lets an exception leave the video player,
\* and a call during which the decoder raised a decode or seek error, on
\* the sequential path or the exact-seek path, leaves _current_frame at the
\* target frame.
C23_VideoErrorsCaught ==
    probe.fn = "seek_to_tick"
        => /\ ~probe.raised
           /\ probe.errored => probe.player.current_frame = probe.target

\* C24: after rebuild_mesh the mesh stored for every chunk is the one
\* build_chunk_mesh makes of the chunk's blocks and the solid and liquid
\* sets as they are now: every chunk holding a block whose culling or AO
\* reads a modified position was marked dirty, the chunks that touch the
\* chunk of that position along an edge or at a corner included.
C24_MeshFreshness ==
    last.op = "rebuild_mesh" =>
        \A k \in DOMAIN chunks :
            StoredMesh(chunks[k])
                = build_chunk_mesh(chunks[k].blocks, solid, liquid, cache)

(***************************************************************************)
(* The cells around a corner of a face.                                    *)
(***************************************************************************)
\* the cell at offset d from a block touches the vertex v of the block, a
\* corner of the unit cube: on every axis the cell reaches from d to d + 1
TouchesVertex(d, v) == \A a \in 1..3 : d[a] \in {v[a] - 1, v[a]}

\* the axis along which the normal of a face points
NormalAxis(face_id) == CHOOSE a \in 1..3 : FACE_NORMALS[face_id + 1][a] # 0

\* the cells of the layer one step along the normal of the face that touch
\* the corner _FACE_VERTS[face_id][corner] of the block at b, without the
\* cell directly in front of the face
CornerCells(b, face_id, corner) ==
    {<<b[1] + d[1], b[2] + d[2], b[3] + d[3]>> :
        d \in {d \in {-1, 0, 1} \X {-1, 0, 1} \X {-1, 0, 1} :
                  /\ d[NormalAxis(face_id)]
                         = FACE_NORMALS[face_id + 1][NormalAxis(face_id)]
                  /\ d # FACE_NORMALS[face_id + 1]
                  /\ TouchesVertex(d, FACE_VERTS[face_id + 1][corner + 1])}}

\* C25: for every face and corner, _compute_ao_corner returns the number of
\* solid cells among the three cells of the layer in front of the face
\* (two edge-adjacent, one diagonal) that touch the vertex
\* _FACE_VERTS[face][corner], the cell directly in front excluded.
C25_AOCornerGeometry ==
    probe.fn = "compute_ao_corner" /\ probe.done =>
        /\ Cardinality(CornerCells(probe.b, probe.face_id, probe.corner)) = 3
        /\ probe.out = Cardinality(CornerCells(probe.b, probe.face_id, probe.corner)
                                       \cap probe.solid)

(***************************************************************************)
(* The slot of the descriptor a Cube face reads.                           *)
(***************************************************************************)
\* the direction the outward normal of a quad of a unit cube points in,
\* read off its corners (in 1/2000 of a block): up = +y, down = -y,
\* east = +x, west = -x, north = -z, south = +z
FacingOf(q) ==
    CASE \A c \in 1..4 : q.verts[c][2] = 2000 -> "up"
      [] \A c \in 1..4 : q.verts[c][2] = 0 -> "down"
      [] \A c \in 1..4 : q.verts[c][1] = 2000 -> "east"
      [] \A c \in 1..4 : q.verts[c][1] = 0 -> "west"
      [] \A c \in 1..4 : q.verts[c][3] = 0 -> "north"
      [] \A c \in 1..4 : q.verts[c][3] = 2000 -> "south"

\* the place of a face name in the order {up, down, north, south, west, east}
\* of the 6-tuples of a descriptor
FaceSlots == <<"up", "down", "north", "south", "west", "east">>
SlotOf(face_name) == CHOOSE i \in 1..6 : FaceSlots[i] = face_name

\* the quad q of a Cube block reads the slot of its direction in descriptor d
ReadsOwnSlot(q, d) ==
    /\ q.tex_id = d.face_textures[SlotOf(FacingOf(q))]
    /\ (q.tint # "white") <=> d.tint_faces[SlotOf(FacingOf(q))]

\* C26: the quad of a Cube block on the face whose outward normal points up,
\* down, east, west, north or south carries the texture index in the slot
\* of that name of the descriptor's 6-tuple {up, down, north, south, west,
\* east}, and is tinted iff the slot of that name of the tint mask is set.
C26_CubeFaceSlots ==
    probe.fn = "build_chunk_mesh" /\ probe.done =>
        \A q \in {probe.out.opaque[i] : i \in 1..Len(probe.out.opaque)}
                    \cup {probe.out.trans[i] : i \in 1..Len(probe.out.trans)} :
            MeshWorld.registry.desc[probe.blocks[q.pos]].render_type = RENDER_CUBE
                => ReadsOwnSlot(q, MeshWorld.registry.desc[probe.blocks[q.pos]])

(***************************************************************************)
(* The packed shading code of the quads of Cube blocks.                    *)
(***************************************************************************)
\* the quads of a buffer that belong to Cube blocks of the call
CubeQuads(buf) ==
    {buf[i] : i \in {i \in 1..Len(buf) :
        MeshWorld.registry.desc[probe.blocks[buf[i].pos]].render_type = RENDER_CUBE}}

\* the block of the quad is shaded: not water or lava
Shaded(q) == BaseId(probe.blocks[q.pos]) \notin UNSHADED_BLOCKS

\* the AO count of corner c (1..4) of the quad and the flip of its face
CornerAO(q, c) == compute_ao_corner(probe.solid, q.pos, q.face_id, c - 1)
FlipOf(q) ==
    IF CornerAO(q, 2) + CornerAO(q, 4) > CornerAO(q, 1) + CornerAO(q, 3) THEN 1 ELSE 0

\* faceId*16 + (3-ao)*2 + flip in every corner, winding of (faceId, flip)
ShadedCode(q) ==
    /\ \A c \in 1..4 :
           q.packed[c] = q.face_id * 16 + (3 - CornerAO(q, c)) * 2 + FlipOf(q)
    /\ q.order = WINDING[q.face_id + 1][FlipOf(q) + 1]

\* (faceId+6)*16 + 6 in every corner
UnshadedCode(q) == \A c \in 1..4 : q.packed[c] = (q.face_id + 6) * 16 + 6

\* faceId*16 + 6 in every corner, the first winding of the face
FlatCode(q) ==
    /\ \A c \in 1..4 : q.packed[c] = q.face_id * 16 + 6
    /\ q.order = WINDING[q.face_id + 1][1]

\* the code is in 0..191, below 96 exactly for a shaded block, and the face
\* id, the AO level and the flip are read back from it
Decodes(q, c, ao_level, flip) ==
    /\ q.packed[c] \in 0..191
    /\ (q.packed[c] < 96) <=> Shaded(q)
    /\ (q.packed[c] \div 16) % 6 = q.face_id
    /\ (q.packed[c] % 16) \div 2 = ao_level
    /\ q.packed[c] % 2 = flip

RECURSIVE PathWithin(_, _, _)
PathWithin(textures, val, n) ==
    IF ~IsRef(val) THEN val
    ELSE IF n = 0 \/ ~HasKey(textures, RefKey(val)) THEN <<>>
    ELSE PathWithin(textures, ValueOf(textures, RefKey(val)), n - 1)

\* the key reached from key k by following n references, "" when a value
\* on the way is a path or names an undefined key
RECURSIVE KeyAfter(_, _, _)
KeyAfter(textures, k, n) ==
    IF n = 0 THEN k
    ELSE IF ~HasKey(textures, k) THEN ""
    ELSE IF ~IsRef(ValueOf(textures, k)) THEN ""
    ELSE KeyAfter(textures, RefKey(ValueOf(textures, k)), n - 1)

OnCycle(textures, k) == \E n \in 1..Len(textures) : KeyAfter(textures, k, n) = k

\* C28: the resolution of texture variables makes at most 10 passes over
\* every table; a path is left as it is; a reference on a cycle or to an
\* undefined variable is left as the literal #name; and a reference that
\* leads to a path through at most 10 references is replaced by that path,
\* whatever the order of the entries.
C28_TextureVariableResolution ==
    probe.fn = "resolve_texture_variables" /\ probe.done =>
        /\ probe.out.iterations <= MaxPasses
        /\ Len(probe.out.textures) = Len(probe.textures)
        /\ \A i \in 1..Len(probe.textures) :
               /\ probe.out.textures[i][1] = probe.textures[i][1]
               /\ ~IsRef(probe.textures[i][2])
                      => probe.out.textures[i][2] = probe.textures[i][2]
               /\ (IsRef(probe.textures[i][2])
                     /\ PathWithin(probe.textures, probe.textures[i][2], MaxPasses) # <<>>)
                      => probe.out.textures[i][2]
                             = PathWithin(probe.textures, probe.textures[i][2], MaxPasses)
               /\ (IsRef(probe.textures[i][2])
                     /\ (\/ OnCycle(probe.textures, probe.textures[i][1])
                         \/ ~HasKey(probe.textures, RefKey(probe.textures[i][2]))))
                      => probe.out.textures[i][2] = probe.textures[i][2]

\* a chain whose first key comes first and is 10 references away from the
\* path has been resolved in 10 passes
C28_Witness ==
    /\ probe.fn = "resolve_texture_variables"
    /\ probe.done
    /\ probe.textures = ChainUp(MaxPasses + 1)
    /\ probe.out.iterations = MaxPasses
    /\ \A i \in 1..Len(probe.out.textures) :
           probe.out.textures[i][2] = <<"", "block/stone">>

(***************************************************************************)
(* What _rotate_elements does to boxes and to face names.                  *)
(***************************************************************************)
\* where the corner transform of a rotation takes a point: the corner of
\* the rotated box that has the point for both corners
PointMap(p, rot_x, rot_y) ==
    rotate_elements(<< [from |-> p, to |-> p, faces |-> <<>>] >>, rot_x, rot_y)[1].from

\* the corners of the side of a box that a face name names, as
\* _element_face_verts lays them out
SideOf(f, t, face_name) ==
    {element_face_verts(f, t, face_name)[i] : i \in 1..4}

\* the corners of a box that lie on the side a face name names
CornersOn(f, t, face_name) ==
    {c \in {f[1], t[1]} \X {f[2], t[2]} \X {f[3], t[3]} :
        element_face_verts(c, c, face_name)[1] \in SideOf(f, t, face_name)}

InsideUnitCube(e) ==
    \A a \in 1..3 : 0 <= e.from[a] /\ e.from[a] <= e.to[a] /\ e.to[a] <= 16

\* the second rotation that undoes a rotation, for the three pairs
UndoneBy(rot_x, rot_y) ==
    CASE rot_x = 0 /\ rot_y = 90 -> <<0, 270>>
      [] rot_x = 0 /\ rot_y = 180 -> <<0, 180>>
      [] rot_x = 180 /\ rot_y = 0 -> <<180, 0>>
      [] OTHER -> <<>>

\* C29: _rotate_elements applies the X rotation and then the Y rotation;
\* for every box with from <= to inside the unit cube and every rotation
\* with x in {0, 180} and y in {0, 90, 180, 270} the rotated box has
\* from <= to inside the unit cube and as many faces, with distinct names
\* and the face data unchanged; the new name of a face names the side onto
\* which the corner transform takes the side the old name named; and Y 90
\* followed by Y 270, Y 180 twice and X 180 twice give back the elements.
C29_RotateElements ==
    probe.fn = "rotate_elements" /\ probe.done =>
        /\ probe.out = rotate_elements(rotate_elements(probe.elements, probe.rot_x, 0),
                                       0, probe.rot_y)
        /\ Len(probe.out) = Len(probe.elements)
        /\ \A i \in 1..Len(probe.elements) :
               LET e == probe.elements[i]
                   r == probe.out[i]
               IN  /\ InsideUnitCube(e) => InsideUnitCube(r)
                   /\ Len(r.faces) = Len(e.faces)
                   /\ \A j, k \in 1..Len(r.faces) : r.faces[j][1] = r.faces[k][1] => j = k
                   /\ \A j \in 1..Len(e.faces) :
                          /\ r.faces[j][2] = e.faces[j][2]
                          /\ r.faces[j][3] = e.faces[j][3]
                          /\ {element_face_verts(q, q, "up")[1] :
                                 q \in {PointMap(c, probe.rot_x, probe.rot_y) :
                                           c \in CornersOn(e.from, e.to, e.faces[j][1])}}
                               = SideOf(r.from, r.to, r.faces[j][1])
        /\ UndoneBy(probe.rot_x, probe.rot_y) # <<>> =>
               rotate_elements(probe.out, UndoneBy(probe.rot_x, probe.rot_y)[1],
                               UndoneBy(probe.rot_x, probe.rot_y)[2]) = probe.elements

\* a box off the centre with all six faces has been flipped by X 180 and
\* turned by Y 90, and its north face has become the west face
C29_Witness ==
    /\ probe.fn = "rotate_elements"
    /\ probe.done
    /\ probe.rot_x = 180
    /\ probe.rot_y = 90
    /\ Len(probe.elements) = 1
    /\ probe.elements[1].from = <<0, 0, 0>>
    /\ probe.elements[1].to = <<6, 6, 16>>
    /\ Len(probe.elements[1].faces) = 6
    /\ probe.out[1].from = <<0, 10, 0>>
    /\ probe.out[1].to = <<16, 16, 6>>
    /\ probe.out[1].faces[3][1] = "west"

(***************************************************************************)
(* The dirty flags of the chunks and the _any_dirty flag of the world.     *)
(***************************************************************************)
\* the chunks render() draws as they are: all of them when _any_dirty is
\* false, none before rebuild_mesh has run when it is true
DrawnWithoutRebuild == IF any_dirty THEN {} ELSE DOMAIN chunks

\* C30: in every state of the world, between any two of chunk creation,
\* block add and remove, reset and rebuild_mesh, a chunk whose dirty flag
\* is set implies that _any_dirty is true; so render() draws no dirty chunk
\* without rebuilding it: the chunks it draws as they are are clean, and
\* the rebuild_mesh it runs otherwise leaves no chunk dirty.
C30_DirtyImpliesAnyDirty ==
    /\ []((DirtyChunks # {} => any_dirty) /\ DrawnWithoutRebuild \cap DirtyChunks = {})
    /\ [][(any_dirty /\ pc = "idle" /\ last'.op = "rebuild_mesh")
             => {k \in DOMAIN chunks' : chunks'[k].dirty} = {}]_vars

\* a block has been added to a chunk next to a chunk rebuilt before: one
\* chunk is dirty, another is clean with its buffer, and _any_dirty is true
C30_Witness ==
    /\ any_dirty
    /\ DirtyChunks # {}
    /\ \E k \in DOMAIN chunks \ DirtyChunks : chunks[k].vbo # None
    /\ last.op \notin {"", "reset", "rebuild_mesh"}

====
